---- MODULE Spec2Model ----
(***************************************************************************)
(* Model of IActiveVibrationDeviceList (hid_server.cpp): the registry of   *)
(* activated vibration device handles and its single command,              *)
(* ActivateVibrationDevice, executed by concurrent service threads.        *)
(***************************************************************************)
EXTENDS Integers, Sequences, FiniteSets, TLC

(* ---------------------------------------------------------------------- *)
(* Bounds                                                                 *)
(* ---------------------------------------------------------------------- *)

\* vibration_device_list.size(): std::array<..., 0x100> in the source, scaled
\* down so that a full registry is reached within the explored state space.
ListCapacity == 2

\* Service threads that may be inside ActivateVibrationDevice at once.
Threads == {1, 2}

NoThread == 0

\* IActiveVibrationDeviceList objects that CreateActiveVibrationDeviceList may
\* create before the model stops creating more.
MaxSessions == 2

Sessions == 1..MaxSessions

\* Largest number of elements a client puts into a variable-length buffer.
MaxElements == 2

NoSession == 0

(* ---------------------------------------------------------------------- *)
(* Result codes                                                           *)
(* ---------------------------------------------------------------------- *)

ResultSuccess == "ResultSuccess"

ResultVibrationDeviceIndexOutOfRange == "ResultVibrationDeviceIndexOutOfRange"

\* Error of the handle validator (spec: InvalidHandle).
ResultInvalidHandle == "InvalidHandle"

\* Errors the vibration device's Activate() may report.
DeviceErrors == {"DeviceErrorA", "DeviceErrorB"}

\* Sentinels for locals that hold no value yet.
NoResult == "NoResult"

IsError(r) == r # ResultSuccess

(* ---------------------------------------------------------------------- *)
(* Core::HID::VibrationDeviceHandle                                       *)
(* ---------------------------------------------------------------------- *)

\* NpadStyleIndex values used as inputs: None, Fullkey, Handheld.
NpadTypeValues == {0, 3, 4}

\* npad_id values used as inputs: Player1, Player2 and an id that is no npad.
NpadIdValues == {0, 1, 9}

\* device_index values used as inputs: Left, Right and one out of range.
DeviceIndexValues == {0, 1, 2}

VibrationDeviceHandle ==
    [npad_type : NpadTypeValues, npad_id : NpadIdValues, device_index : DeviceIndexValues]

\* Number of fields of h that lie outside the values a usable handle has.
BadFieldCount(h) ==
    (IF h.npad_type \in {3, 4} THEN 0 ELSE 1)
    + (IF h.npad_id \in {0, 1} THEN 0 ELSE 1)
    + (IF h.device_index \in {0, 1} THEN 0 ELSE 1)

\* Handles a client sends: every usable one and those with one bad field.
InputHandles == {h \in VibrationDeviceHandle : BadFieldCount(h) <= 1}

\* Value-initialised handle: the elements of vibration_device_list{}.
ZeroHandle == [npad_type |-> 0, npad_id |-> 0, device_index |-> 0]

\* Logical ids currently configured.
ConfiguredNpadIds == {0, 1}

\* Number of vibration devices of a controller of the given kind.
DeviceIndexRange(npad_type) == IF npad_type \in {3, 4} THEN 2 ELSE 0

\* Handle Validator: pure predicate over the three fields.
IsVibrationHandleValid(h) ==
    IF /\ h.npad_id \in ConfiguredNpadIds
       /\ h.device_index < DeviceIndexRange(h.npad_type)
    THEN ResultSuccess
    ELSE ResultInvalidHandle

(* ---------------------------------------------------------------------- *)
(* State                                                                  *)
(* ---------------------------------------------------------------------- *)

VARIABLES
    vibration_device_list,  \* std::array of handles, indices 0..ListCapacity-1
    list_size,              \* number of entries in use
    mutex,                  \* thread holding the registry mutex, or NoThread
    pc,                     \* per thread: position in ActivateVibrationDevice(Impl)
    handle,                 \* per thread: the handle argument of the call
    result,                 \* per thread: local `result` of the device Activate()
    retval,                 \* per thread: value returned by ActivateVibrationDeviceImpl
    entry_list,             \* history: registry array when the lock holder entered
    entry_size,             \* history: list_size when the lock holder entered
    race_size,              \* history: list_size when a second request joined a running one
    race_fresh,             \* history: both requests carry one handle, unregistered by then
    race_distinct,          \* history: the requests carry two handles, both unregistered by then
    prev_call,              \* history (sequential client): the previous completed call
    seq_called,             \* history (sequential client): handles activated so far
    seq_clean,              \* history (sequential client): all calls so far valid, distinct, device ok
    dev_log,                \* history: handles whose device Activate() returned success, in order
    sess_count,             \* number of IActiveVibrationDeviceList objects created so far
    sess_list,              \* per object: its vibration_device_list
    sess_size,              \* per object: its list_size
    sess_mutex,             \* per object: the thread holding its mutex, or NoThread
    sess_pc,                \* per thread: position in a call on one of the objects
    sess_of,                \* per thread: the object the call is made on, or NoSession
    sess_handle,            \* per thread: the handle argument of that call
    sess_ret,               \* per thread: the value returned by that call
    hid_request,            \* IHidServer: the request last dispatched
    hid_response,           \* IHidServer: the response built for it
    hid_calls,              \* IHidServer: calls the handler made into its collaborators
    rm_initialized          \* ResourceManager::Initialize() has been called

regVars == <<vibration_device_list, list_size, mutex>>
thrVars == <<pc, handle, result, retval>>
entryVars == <<entry_list, entry_size>>
raceVars == <<race_size, race_fresh, race_distinct>>
seqVars == <<prev_call, seq_called, seq_clean>>
histVars == <<race_size, race_fresh, race_distinct, prev_call, seq_called, seq_clean, dev_log>>
sessVars == <<sess_count, sess_list, sess_size, sess_mutex, sess_pc, sess_of,
              sess_handle, sess_ret>>
hidVars == <<hid_request, hid_response, hid_calls, rm_initialized>>
extVars == <<sess_count, sess_list, sess_size, sess_mutex, sess_pc, sess_of,
             sess_handle, sess_ret, hid_request, hid_response, hid_calls, rm_initialized>>
vars == <<vibration_device_list, list_size, mutex, pc, handle, result, retval,
          entry_list, entry_size, race_size, race_fresh, race_distinct,
          prev_call, seq_called, seq_clean, dev_log,
          sess_count, sess_list, sess_size, sess_mutex, sess_pc, sess_of,
          sess_handle, sess_ret, hid_request, hid_response, hid_calls, rm_initialized>>

EmptyList == [i \in 0..(ListCapacity - 1) |-> ZeroHandle]

\* No request dispatched yet, no response built yet.
NoRequest == [opcode |-> -1, aruid |-> 0, managed |-> FALSE, param |-> 0]

NoResponse ==
    [result |-> NoResult, data |-> <<>>, handles |-> 0, buffer |-> <<>>, object |-> NoSession]

NoCall == [h |-> ZeroHandle, ret |-> NoResult, dev |-> NoResult, size0 |-> 0, fresh |-> FALSE]

\* Specification-side membership: h is one of the first `size` entries.
Holds(h, list, size) ==
    \E i \in DOMAIN list : i < size /\ list[i] = h

\* Variant: the first comparison reads the wrong field of the entry.
HandleEqualsMixed(h, e) ==
    /\ h.device_index = e.npad_id
    /\ h.npad_id = e.npad_id
    /\ h.npad_type = e.npad_type

\* Variant: device_index is not compared.
HandleEqualsNoIndex(h, e) ==
    /\ h.npad_id = e.npad_id
    /\ h.npad_type = e.npad_type

\* The comparison of lines 76-78.
HandleEquals(h, e) ==
    /\ h.device_index = e.device_index
    /\ h.npad_id = e.npad_id
    /\ h.npad_type = e.npad_type

\* Variant: the loop stops one entry early (i + 1 < list_size).
RECURSIVE ScanFromShort(_, _, _, _)
ScanFromShort(i, h, list, size) ==
    IF i + 1 < size
    THEN IF /\ h.device_index = list[i].device_index
            /\ h.npad_id = list[i].npad_id
            /\ h.npad_type = list[i].npad_type
         THEN TRUE
         ELSE ScanFromShort(i + 1, h, list, size)
    ELSE FALSE

\* The loop of lines 75-81, from index i: TRUE iff it returns ResultSuccess.
RECURSIVE ScanFrom(_, _, _, _)
ScanFrom(i, h, list, size) ==
    IF i < size
    THEN IF HandleEquals(h, list[i]) THEN TRUE ELSE ScanFrom(i + 1, h, list, size)
    ELSE FALSE

\* Variant: the scan starts at index 1.
IsRegisteredSkipFirst(h, list, size) ==
    \E i \in DOMAIN list : i >= 1 /\ i < size /\ list[i] = h

\* Lines 75-81: the scan starts at index 0.
IsRegistered(h, list, size) == ScanFrom(0, h, list, size)

\* Variant: the comparison is > instead of ==.
IsFullGreater(size) == size > ListCapacity

\* Line 82: list_size == vibration_device_list.size().
IsFull(size) == size = ListCapacity

\* Variant: no mutual exclusion.
CanLockAlways(m) == TRUE

\* std::scoped_lock lock{mutex}: can be taken only when no thread holds it.
CanLock(m) == m = NoThread

Init ==
    /\ vibration_device_list = EmptyList
    /\ list_size = 0
    /\ mutex = NoThread
    /\ pc = [t \in Threads |-> "idle"]
    /\ handle = [t \in Threads |-> ZeroHandle]
    /\ result = [t \in Threads |-> NoResult]
    /\ retval = [t \in Threads |-> NoResult]
    /\ entry_list = EmptyList
    /\ entry_size = 0
    /\ race_size = 0
    /\ race_fresh = FALSE
    /\ race_distinct = FALSE
    /\ prev_call = NoCall
    /\ seq_called = {}
    /\ seq_clean = TRUE
    /\ dev_log = <<>>
    /\ sess_count = 0
    /\ sess_list = [s \in Sessions |-> EmptyList]
    /\ sess_size = [s \in Sessions |-> 0]
    /\ sess_mutex = [s \in Sessions |-> NoThread]
    /\ sess_pc = [t \in Threads |-> "idle"]
    /\ sess_of = [t \in Threads |-> NoSession]
    /\ sess_handle = [t \in Threads |-> ZeroHandle]
    /\ sess_ret = [t \in Threads |-> NoResult]
    /\ hid_request = NoRequest
    /\ hid_response = NoResponse
    /\ hid_calls = <<>>
    /\ rm_initialized = FALSE

(* ---------------------------------------------------------------------- *)
(* ActivateVibrationDevice / ActivateVibrationDeviceImpl                  *)
(* ---------------------------------------------------------------------- *)

\* Lines 53-61: the request is parsed and ActivateVibrationDeviceImpl entered.
Call(t, h) ==
    /\ pc[t] = "idle"
    /\ handle' = [handle EXCEPT ![t] = h]
    /\ pc' = [pc EXCEPT ![t] = "lock"]
    /\ UNCHANGED <<regVars, result, retval, entryVars>>

\* Variant: the lock object is a temporary, released at once.
LockNotHeld(t) ==
    /\ pc[t] = "lock"
    /\ CanLock(mutex)
    /\ entry_list' = vibration_device_list
    /\ entry_size' = list_size
    /\ pc' = [pc EXCEPT ![t] = "validate"]
    /\ UNCHANGED <<regVars, handle, result, retval, histVars, extVars>>

\* Line 68.
Lock(t) ==
    /\ pc[t] = "lock"
    /\ CanLock(mutex)
    /\ mutex' = t
    /\ entry_list' = vibration_device_list
    /\ entry_size' = list_size
    /\ pc' = [pc EXCEPT ![t] = "validate"]
    /\ UNCHANGED <<vibration_device_list, list_size, handle, result, retval, histVars, extVars>>

\* Variant: the validator's verdict is computed but not acted upon.
ValidateIgnored(t) ==
    /\ pc[t] = "validate"
    /\ pc' = [pc EXCEPT ![t] = "scan"]
    /\ UNCHANGED <<regVars, handle, result, retval, entryVars, histVars, extVars>>

\* Lines 70-73.
Validate(t) ==
    /\ pc[t] = "validate"
    /\ LET is_valid == IsVibrationHandleValid(handle[t]) IN
        IF IsError(is_valid)
        THEN /\ retval' = [retval EXCEPT ![t] = is_valid]
             /\ pc' = [pc EXCEPT ![t] = "unlock"]
        ELSE /\ pc' = [pc EXCEPT ![t] = "scan"]
             /\ UNCHANGED retval
    /\ UNCHANGED <<regVars, handle, result, entryVars, histVars, extVars>>

\* Variant: the capacity check precedes the presence scan.
ScanAfterCapacity(t) ==
    /\ pc[t] = "scan"
    /\ IF list_size = ListCapacity
       THEN /\ retval' = [retval EXCEPT ![t] = ResultVibrationDeviceIndexOutOfRange]
            /\ pc' = [pc EXCEPT ![t] = "unlock"]
       ELSE IF Holds(handle[t], vibration_device_list, list_size)
            THEN /\ retval' = [retval EXCEPT ![t] = ResultSuccess]
                 /\ pc' = [pc EXCEPT ![t] = "unlock"]
            ELSE /\ pc' = [pc EXCEPT ![t] = "capacity"]
                 /\ UNCHANGED retval
    /\ UNCHANGED <<regVars, handle, result, entryVars, histVars, extVars>>

\* Lines 75-81.
Scan(t) ==
    /\ pc[t] = "scan"
    /\ IF IsRegistered(handle[t], vibration_device_list, list_size)
       THEN /\ retval' = [retval EXCEPT ![t] = ResultSuccess]
            /\ pc' = [pc EXCEPT ![t] = "unlock"]
       ELSE /\ pc' = [pc EXCEPT ![t] = "capacity"]
            /\ UNCHANGED retval
    /\ UNCHANGED <<regVars, handle, result, entryVars, histVars, extVars>>

\* Variant: the capacity check is missing before the device call.
CheckCapacitySkipped(t) ==
    /\ pc[t] = "capacity"
    /\ pc' = [pc EXCEPT ![t] = "activate"]
    /\ UNCHANGED <<regVars, handle, result, retval, entryVars, histVars, extVars>>

\* Lines 82-84.
CheckCapacity(t) ==
    /\ pc[t] = "capacity"
    /\ IF IsFull(list_size)
       THEN /\ retval' = [retval EXCEPT ![t] = ResultVibrationDeviceIndexOutOfRange]
            /\ pc' = [pc EXCEPT ![t] = "unlock"]
       ELSE /\ pc' = [pc EXCEPT ![t] = "activate"]
            /\ UNCHANGED retval
    /\ UNCHANGED <<regVars, handle, result, entryVars, histVars, extVars>>

\* Variant: the device's error is not checked before the insert.
DeviceActivateUnchecked(t) ==
    /\ pc[t] = "activate"
    /\ \E r \in {ResultSuccess} \cup DeviceErrors :
        /\ result' = [result EXCEPT ![t] = r]
        /\ dev_log' = IF IsError(r) THEN dev_log ELSE Append(dev_log, handle[t])
    /\ pc' = [pc EXCEPT ![t] = "insert"]
    /\ UNCHANGED <<regVars, handle, retval, entryVars, raceVars, seqVars, extVars>>

\* Lines 85-88: resource_manager->GetVibrationDevice(handle)->Activate().
DeviceActivate(t) ==
    /\ pc[t] = "activate"
    /\ \E r \in {ResultSuccess} \cup DeviceErrors :
        /\ result' = [result EXCEPT ![t] = r]
        /\ dev_log' = IF IsError(r) THEN dev_log ELSE Append(dev_log, handle[t])
        /\ IF IsError(r)
           THEN /\ retval' = [retval EXCEPT ![t] = r]
                /\ pc' = [pc EXCEPT ![t] = "unlock"]
           ELSE /\ pc' = [pc EXCEPT ![t] = "insert"]
                /\ UNCHANGED retval
    /\ UNCHANGED <<regVars, handle, entryVars, raceVars, seqVars, extVars>>

\* Variant: the entry is written but list_size is not incremented.
InsertNoIncrement(t) ==
    /\ pc[t] = "insert"
    /\ vibration_device_list' =
           IF list_size \in DOMAIN vibration_device_list
           THEN [vibration_device_list EXCEPT ![list_size] = handle[t]]
           ELSE vibration_device_list
    /\ retval' = [retval EXCEPT ![t] = ResultSuccess]
    /\ pc' = [pc EXCEPT ![t] = "unlock"]
    /\ UNCHANGED <<list_size, mutex, handle, result, entryVars, histVars, extVars>>

\* Variant: the handle is written one slot too low.
InsertOffByOne(t) ==
    /\ pc[t] = "insert"
    /\ vibration_device_list' =
           IF list_size - 1 \in DOMAIN vibration_device_list
           THEN [vibration_device_list EXCEPT ![list_size - 1] = handle[t]]
           ELSE vibration_device_list
    /\ list_size' = list_size + 1
    /\ retval' = [retval EXCEPT ![t] = ResultSuccess]
    /\ pc' = [pc EXCEPT ![t] = "unlock"]
    /\ UNCHANGED <<mutex, handle, result, entryVars, histVars, extVars>>

\* Lines 89-90: vibration_device_list[list_size++] = handle.
Insert(t) ==
    /\ pc[t] = "insert"
    /\ vibration_device_list' =
           IF list_size \in DOMAIN vibration_device_list
           THEN [vibration_device_list EXCEPT ![list_size] = handle[t]]
           ELSE vibration_device_list
    /\ list_size' = list_size + 1
    /\ retval' = [retval EXCEPT ![t] = ResultSuccess]
    /\ pc' = [pc EXCEPT ![t] = "unlock"]
    /\ UNCHANGED <<mutex, handle, result, entryVars, histVars, extVars>>

\* Variant: the function returns without releasing the mutex.
UnlockHeld(t) ==
    /\ pc[t] = "unlock"
    /\ result' = [result EXCEPT ![t] = NoResult]
    /\ entry_list' = EmptyList
    /\ entry_size' = 0
    /\ pc' = [pc EXCEPT ![t] = "push"]
    /\ UNCHANGED <<vibration_device_list, list_size, mutex, handle, retval>>

\* Line 91: the locals go out of scope and the scoped_lock is released.
Unlock(t) ==
    /\ pc[t] = "unlock"
    /\ mutex' = IF mutex = t THEN NoThread ELSE mutex
    /\ result' = [result EXCEPT ![t] = NoResult]
    /\ entry_list' = EmptyList
    /\ entry_size' = 0
    /\ pc' = [pc EXCEPT ![t] = "push"]
    /\ UNCHANGED <<vibration_device_list, list_size, handle, retval>>

\* Lines 63-65: the response carrying the result is built; the request ends.
Respond(t) ==
    /\ pc[t] = "push"
    /\ pc' = [pc EXCEPT ![t] = "idle"]
    /\ handle' = [handle EXCEPT ![t] = ZeroHandle]
    /\ retval' = [retval EXCEPT ![t] = NoResult]
    /\ UNCHANGED <<regVars, result, entryVars>>

(* ---------------------------------------------------------------------- *)
(* Concurrent clients: any thread may issue a request at any time.        *)
(* ---------------------------------------------------------------------- *)

Other(t) == CHOOSE u \in Threads : u # t

\* A request arrives; if the other thread's request is still running, the
\* registry size at this moment is remembered.
ConcCall(t) ==
    \E h \in InputHandles :
        /\ Call(t, h)
        /\ IF pc[Other(t)] # "idle"
           THEN /\ race_size' = list_size
                /\ race_fresh' = (/\ handle[Other(t)] = h
                                  /\ ~Holds(h, vibration_device_list, list_size))
                /\ race_distinct' = (/\ handle[Other(t)] # h
                                     /\ ~Holds(h, vibration_device_list, list_size)
                                     /\ ~Holds(handle[Other(t)], vibration_device_list,
                                               list_size))
           ELSE /\ race_size' = 0
                /\ race_fresh' = FALSE
                /\ race_distinct' = FALSE
        /\ UNCHANGED <<seqVars, dev_log, extVars>>

ConcUnlock(t) == Unlock(t) /\ UNCHANGED <<histVars, extVars>>

ConcRespond(t) ==
    /\ Respond(t)
    /\ race_size' = 0
    /\ race_fresh' = FALSE
    /\ race_distinct' = FALSE
    /\ UNCHANGED <<seqVars, dev_log, extVars>>

Next ==
    \E t \in Threads :
        \/ ConcCall(t)
        \/ Lock(t)
        \/ Validate(t)
        \/ Scan(t)
        \/ CheckCapacity(t)
        \/ DeviceActivate(t)
        \/ Insert(t)
        \/ ConcUnlock(t)
        \/ ConcRespond(t)

Spec == Init /\ [][Next]_vars

(* ---------------------------------------------------------------------- *)
(* Sequential client: one thread issues requests one after another.       *)
(* ---------------------------------------------------------------------- *)

SeqThread == CHOOSE t \in Threads : \A u \in Threads : t <= u

SeqCall == (\E h \in InputHandles : Call(SeqThread, h)) /\ UNCHANGED <<histVars, extVars>>

\* The call completes: it becomes the previous call, and it extends the run
\* of valid, pairwise distinct, device-accepted activations if it is one.
SeqUnlock ==
    /\ Unlock(SeqThread)
    /\ LET h == handle[SeqThread]
           valid == ~IsError(IsVibrationHandleValid(h))
       IN /\ prev_call' = [h |-> h, ret |-> retval[SeqThread], dev |-> result[SeqThread],
                           size0 |-> entry_size,
                           fresh |-> /\ valid
                                     /\ ~Holds(h, entry_list, entry_size)
                                     /\ entry_size < ListCapacity]
          /\ IF /\ seq_clean
                /\ valid
                /\ h \notin seq_called
                /\ result[SeqThread] \notin DeviceErrors
                /\ Cardinality(seq_called) <= ListCapacity
             THEN /\ seq_called' = seq_called \cup {h}
                  /\ seq_clean' = TRUE
             ELSE /\ seq_called' = {}
                  /\ seq_clean' = FALSE
    /\ UNCHANGED <<raceVars, dev_log, extVars>>

SeqRespond == Respond(SeqThread) /\ UNCHANGED <<histVars, extVars>>

SeqNext ==
    \/ SeqCall
    \/ Lock(SeqThread)
    \/ Validate(SeqThread)
    \/ Scan(SeqThread)
    \/ CheckCapacity(SeqThread)
    \/ DeviceActivate(SeqThread)
    \/ Insert(SeqThread)
    \/ SeqUnlock
    \/ SeqRespond

SpecSeq == Init /\ [][SeqNext]_vars


(* ---------------------------------------------------------------------- *)
(* Concurrent clients under fair scheduling                               *)
(* ---------------------------------------------------------------------- *)

\* Handles sent in the runs that are checked for progress.
LiveHandles ==
    {h \in InputHandles :
        h.npad_id = 0 /\ (h.npad_type = 3 \/ (h.npad_type = 4 /\ h.device_index = 0))}

LiveCall(t) == (\E h \in LiveHandles : Call(t, h)) /\ UNCHANGED <<histVars, extVars>>

LiveUnlock(t) == Unlock(t) /\ UNCHANGED <<histVars, extVars>>

LiveRespond(t) == Respond(t) /\ UNCHANGED <<histVars, extVars>>

LiveNext ==
    \E t \in Threads :
        \/ LiveCall(t)
        \/ Lock(t)
        \/ Validate(t)
        \/ Scan(t)
        \/ CheckCapacity(t)
        \/ DeviceActivate(t)
        \/ Insert(t)
        \/ LiveUnlock(t)
        \/ LiveRespond(t)

\* Fair scheduling: a thread that can take its next step takes it, and the
\* device's Activate() returns (the step DeviceActivate). std::scoped_lock on
\* a std::mutex (line 68) promises no order among the waiters: a waiter gets
\* the mutex if it stays free, and may lose it to another caller every time.
\* Clients are not obliged to issue requests.
Fairness ==
    \A t \in Threads :
        /\ WF_vars(Lock(t))
        /\ WF_vars(Validate(t))
        /\ WF_vars(Scan(t))
        /\ WF_vars(CheckCapacity(t))
        /\ WF_vars(DeviceActivate(t))
        /\ WF_vars(Insert(t))
        /\ WF_vars(LiveUnlock(t))
        /\ WF_vars(LiveRespond(t))

SpecLive == Init /\ [][LiveNext]_vars /\ Fairness

(* ---------------------------------------------------------------------- *)
(* IHidServer: command table                                              *)
(* ---------------------------------------------------------------------- *)

\* The FunctionInfo table of the constructor: <<opcode, handler>>, with
\* "nullptr" for an entry that has no handler.
FunctionTable == {
    <<0, "CreateAppletResource">>, <<1, "ActivateDebugPad">>, <<11, "ActivateTouchScreen">>,
    <<21, "ActivateMouse">>, <<26, "nullptr">>, <<31, "ActivateKeyboard">>,
    <<32, "SendKeyboardLockKeyEvent">>, <<40, "AcquireXpadIdEventHandle">>,
    <<41, "ReleaseXpadIdEventHandle">>, <<51, "ActivateXpad">>, <<55, "GetXpadIds">>,
    <<56, "ActivateJoyXpad">>, <<58, "GetJoyXpadLifoHandle">>, <<59, "GetJoyXpadIds">>,
    <<60, "ActivateSixAxisSensor">>, <<61, "DeactivateSixAxisSensor">>,
    <<62, "GetSixAxisSensorLifoHandle">>, <<63, "ActivateJoySixAxisSensor">>,
    <<64, "DeactivateJoySixAxisSensor">>, <<65, "GetJoySixAxisSensorLifoHandle">>,
    <<66, "StartSixAxisSensor">>, <<67, "StopSixAxisSensor">>,
    <<68, "IsSixAxisSensorFusionEnabled">>, <<69, "EnableSixAxisSensorFusion">>,
    <<70, "SetSixAxisSensorFusionParameters">>, <<71, "GetSixAxisSensorFusionParameters">>,
    <<72, "ResetSixAxisSensorFusionParameters">>, <<73, "nullptr">>, <<74, "nullptr">>,
    <<75, "nullptr">>, <<76, "nullptr">>, <<77, "nullptr">>, <<78, "nullptr">>,
    <<79, "SetGyroscopeZeroDriftMode">>, <<80, "GetGyroscopeZeroDriftMode">>,
    <<81, "ResetGyroscopeZeroDriftMode">>, <<82, "IsSixAxisSensorAtRest">>,
    <<83, "IsFirmwareUpdateAvailableForSixAxisSensor">>,
    <<84, "EnableSixAxisSensorUnalteredPassthrough">>,
    <<85, "IsSixAxisSensorUnalteredPassthroughEnabled">>, <<86, "nullptr">>,
    <<87, "LoadSixAxisSensorCalibrationParameter">>, <<88, "GetSixAxisSensorIcInformation">>,
    <<89, "ResetIsSixAxisSensorDeviceNewlyAssigned">>, <<91, "ActivateGesture">>,
    <<100, "SetSupportedNpadStyleSet">>, <<101, "GetSupportedNpadStyleSet">>,
    <<102, "SetSupportedNpadIdType">>, <<103, "ActivateNpad">>, <<104, "DeactivateNpad">>,
    <<106, "AcquireNpadStyleSetUpdateEventHandle">>, <<107, "DisconnectNpad">>,
    <<108, "GetPlayerLedPattern">>, <<109, "ActivateNpadWithRevision">>,
    <<120, "SetNpadJoyHoldType">>, <<121, "GetNpadJoyHoldType">>,
    <<122, "SetNpadJoyAssignmentModeSingleByDefault">>,
    <<123, "SetNpadJoyAssignmentModeSingle">>, <<124, "SetNpadJoyAssignmentModeDual">>,
    <<125, "MergeSingleJoyAsDualJoy">>, <<126, "StartLrAssignmentMode">>,
    <<127, "StopLrAssignmentMode">>, <<128, "SetNpadHandheldActivationMode">>,
    <<129, "GetNpadHandheldActivationMode">>, <<130, "SwapNpadAssignment">>,
    <<131, "IsUnintendedHomeButtonInputProtectionEnabled">>,
    <<132, "EnableUnintendedHomeButtonInputProtection">>,
    <<133, "SetNpadJoyAssignmentModeSingleWithDestination">>,
    <<134, "SetNpadAnalogStickUseCenterClamp">>, <<135, "SetNpadCaptureButtonAssignment">>,
    <<136, "ClearNpadCaptureButtonAssignment">>, <<200, "GetVibrationDeviceInfo">>,
    <<201, "SendVibrationValue">>, <<202, "GetActualVibrationValue">>,
    <<203, "CreateActiveVibrationDeviceList">>, <<204, "PermitVibration">>,
    <<205, "IsVibrationPermitted">>, <<206, "SendVibrationValues">>,
    <<207, "SendVibrationGcErmCommand">>, <<208, "GetActualVibrationGcErmCommand">>,
    <<209, "BeginPermitVibrationSession">>, <<210, "EndPermitVibrationSession">>,
    <<211, "IsVibrationDeviceMounted">>, <<212, "SendVibrationValueInBool">>,
    <<300, "ActivateConsoleSixAxisSensor">>, <<301, "StartConsoleSixAxisSensor">>,
    <<302, "StopConsoleSixAxisSensor">>, <<303, "ActivateSevenSixAxisSensor">>,
    <<304, "StartSevenSixAxisSensor">>, <<305, "StopSevenSixAxisSensor">>,
    <<306, "InitializeSevenSixAxisSensor">>, <<307, "FinalizeSevenSixAxisSensor">>,
    <<308, "nullptr">>, <<309, "nullptr">>, <<310, "ResetSevenSixAxisSensorTimestamp">>,
    <<400, "IsUsbFullKeyControllerEnabled">>, <<401, "nullptr">>, <<402, "nullptr">>,
    <<403, "nullptr">>, <<404, "nullptr">>, <<405, "nullptr">>, <<406, "nullptr">>,
    <<407, "nullptr">>, <<408, "nullptr">>, <<500, "GetPalmaConnectionHandle">>,
    <<501, "InitializePalma">>, <<502, "AcquirePalmaOperationCompleteEvent">>,
    <<503, "GetPalmaOperationInfo">>, <<504, "PlayPalmaActivity">>,
    <<505, "SetPalmaFrModeType">>, <<506, "ReadPalmaStep">>, <<507, "EnablePalmaStep">>,
    <<508, "ResetPalmaStep">>, <<509, "ReadPalmaApplicationSection">>,
    <<510, "WritePalmaApplicationSection">>, <<511, "ReadPalmaUniqueCode">>,
    <<512, "SetPalmaUniqueCodeInvalid">>, <<513, "WritePalmaActivityEntry">>,
    <<514, "WritePalmaRgbLedPatternEntry">>, <<515, "WritePalmaWaveEntry">>,
    <<516, "SetPalmaDataBaseIdentificationVersion">>,
    <<517, "GetPalmaDataBaseIdentificationVersion">>, <<518, "SuspendPalmaFeature">>,
    <<519, "GetPalmaOperationResult">>, <<520, "ReadPalmaPlayLog">>,
    <<521, "ResetPalmaPlayLog">>, <<522, "SetIsPalmaAllConnectable">>,
    <<523, "SetIsPalmaPairedConnectable">>, <<524, "PairPalma">>, <<525, "SetPalmaBoostMode">>,
    <<526, "CancelWritePalmaWaveEntry">>, <<527, "EnablePalmaBoostMode">>,
    <<528, "GetPalmaBluetoothAddress">>, <<529, "SetDisallowedPalmaConnection">>,
    <<1000, "SetNpadCommunicationMode">>, <<1001, "GetNpadCommunicationMode">>,
    <<1002, "SetTouchScreenConfiguration">>, <<1003, "IsFirmwareUpdateNeededForNotification">>,
    <<1004, "SetTouchScreenResolution">>, <<2000, "nullptr">>}

\* Variant: the entry of opcode 26 is bound to the mouse handler.
HandlerOfDebugMouse(opcode) ==
    IF opcode = 26
    THEN "ActivateMouse"
    ELSE IF \E e \in FunctionTable : e[1] = opcode
    THEN (CHOOSE e \in FunctionTable : e[1] = opcode)[2]
    ELSE "absent"

\* The handler the framework finds for an opcode: "nullptr" for an entry
\* without handler, "absent" for an opcode that has no entry.
HandlerOf(opcode) ==
    IF \E e \in FunctionTable : e[1] = opcode
    THEN (CHOOSE e \in FunctionTable : e[1] = opcode)[2]
    ELSE "absent"

\* A call made without an argument of interest.
NoArg == 0

\* A call a handler makes into a collaborator: the object, the function, the
\* argument and what the call returned.
CallRec(obj, fn, arg, r) == [obj |-> obj, fn |-> fn, arg |-> arg, ret |-> r]

\* IHidServer::GetResourceManager(): initialises, then hands out the pointer.
GetResourceManager == <<CallRec("ResourceManager", "Initialize", NoArg, NoResult)>>

Response(r, data, handles, buffer) ==
    [result |-> r, data |-> data, handles |-> handles, buffer |-> buffer, object |-> NoSession]

Request(opcode, aruid, managed, param) ==
    [opcode |-> opcode, aruid |-> aruid, managed |-> managed, param |-> param]

\* The response is returned to the client and the request context is gone;
\* what the resource manager has been told stays.
Complete ==
    /\ hid_request # NoRequest
    /\ hid_request' = NoRequest
    /\ hid_response' = NoResponse
    /\ hid_calls' = <<>>
    /\ UNCHANGED <<rm_initialized, regVars, thrVars, entryVars, histVars, sessVars>>

\* Variant: the new object is given the member resource_manager itself.
CreateActiveVibrationDeviceListDirect ==
    /\ hid_request = NoRequest
    /\ HandlerOf(203) = "CreateActiveVibrationDeviceList"
    /\ sess_count < MaxSessions
    /\ sess_count' = sess_count + 1
    /\ sess_list' = [sess_list EXCEPT ![sess_count + 1] = EmptyList]
    /\ sess_size' = [sess_size EXCEPT ![sess_count + 1] = 0]
    /\ sess_mutex' = [sess_mutex EXCEPT ![sess_count + 1] = NoThread]
    /\ hid_request' = Request(203, NoArg, FALSE, NoArg)
    /\ hid_response' = [Response(ResultSuccess, <<>>, 0, <<>>) EXCEPT !.object = sess_count + 1]
    /\ hid_calls' = <<>>
    /\ UNCHANGED rm_initialized
    /\ UNCHANGED <<sess_pc, sess_of, sess_handle, sess_ret>>
    /\ UNCHANGED <<regVars, thrVars, entryVars, histVars>>

\* Opcode 203: a new IActiveVibrationDeviceList is built over the resource
\* manager and handed to the client.
CreateActiveVibrationDeviceList ==
    /\ hid_request = NoRequest
    /\ HandlerOf(203) = "CreateActiveVibrationDeviceList"
    /\ sess_count < MaxSessions
    /\ sess_count' = sess_count + 1
    /\ sess_list' = [sess_list EXCEPT ![sess_count + 1] = EmptyList]
    /\ sess_size' = [sess_size EXCEPT ![sess_count + 1] = 0]
    /\ sess_mutex' = [sess_mutex EXCEPT ![sess_count + 1] = NoThread]
    /\ hid_request' = Request(203, NoArg, FALSE, NoArg)
    /\ hid_response' = [Response(ResultSuccess, <<>>, 0, <<>>) EXCEPT !.object = sess_count + 1]
    /\ hid_calls' = GetResourceManager
    /\ rm_initialized' = TRUE
    /\ UNCHANGED <<sess_pc, sess_of, sess_handle, sess_ret>>
    /\ UNCHANGED <<regVars, thrVars, entryVars, histVars>>

(* ---------------------------------------------------------------------- *)
(* Several IActiveVibrationDeviceList objects, one per created session    *)
(* ---------------------------------------------------------------------- *)

\* Handles sent in the runs with several objects.
SessionHandles ==
    {h \in InputHandles :
        h.npad_id = 0 /\ (h.npad_type = 3 \/ (h.npad_type = 4 /\ h.device_index = 0))}

\* The whole of ActivateVibrationDeviceImpl (lines 70-90) on one registry, run
\* under its lock: the returned result and the registry afterwards, when the
\* device would answer dev.
AtomicActivate(list, size, h, dev) ==
    IF IsError(IsVibrationHandleValid(h))
    THEN [ret |-> IsVibrationHandleValid(h), list |-> list, size |-> size]
    ELSE IF Holds(h, list, size)
    THEN [ret |-> ResultSuccess, list |-> list, size |-> size]
    ELSE IF size = ListCapacity
    THEN [ret |-> ResultVibrationDeviceIndexOutOfRange, list |-> list, size |-> size]
    ELSE IF dev \in DeviceErrors
    THEN [ret |-> dev, list |-> list, size |-> size]
    ELSE [ret |-> ResultSuccess, list |-> [list EXCEPT ![size] = h], size |-> size + 1]

\* Lines 53-61 on object s.
SessCall(t, s, h) ==
    /\ sess_pc[t] = "idle"
    /\ s <= sess_count
    /\ sess_of' = [sess_of EXCEPT ![t] = s]
    /\ sess_handle' = [sess_handle EXCEPT ![t] = h]
    /\ sess_pc' = [sess_pc EXCEPT ![t] = "lock"]
    /\ UNCHANGED <<sess_count, sess_list, sess_size, sess_mutex, sess_ret>>
    /\ UNCHANGED <<regVars, thrVars, entryVars, histVars, hidVars>>

\* Line 68: the mutex is a member of the object the call is made on.
SessLock(t) ==
    /\ sess_pc[t] = "lock"
    /\ CanLock(sess_mutex[sess_of[t]])
    /\ sess_mutex' = [sess_mutex EXCEPT ![sess_of[t]] = t]
    /\ sess_pc' = [sess_pc EXCEPT ![t] = "body"]
    /\ UNCHANGED <<sess_count, sess_list, sess_size, sess_of, sess_handle, sess_ret>>
    /\ UNCHANGED <<regVars, thrVars, entryVars, histVars, hidVars>>

\* Variant: list and size are static, shared by all objects.
SessActivateShared(t) ==
    /\ sess_pc[t] = "body"
    /\ \E dev \in {ResultSuccess} \cup DeviceErrors :
        LET s == sess_of[t]
            out == AtomicActivate(sess_list[s], sess_size[s], sess_handle[t], dev)
        IN /\ sess_list' = [u \in Sessions |-> out.list]
           /\ sess_size' = [u \in Sessions |-> out.size]
           /\ sess_ret' = [sess_ret EXCEPT ![t] = out.ret]
    /\ sess_pc' = [sess_pc EXCEPT ![t] = "unlock"]
    /\ UNCHANGED <<sess_count, sess_mutex, sess_of, sess_handle>>
    /\ UNCHANGED <<regVars, thrVars, entryVars, histVars, hidVars>>

\* Lines 70-90 on the members of the object the call is made on.
SessActivate(t) ==
    /\ sess_pc[t] = "body"
    /\ \E dev \in {ResultSuccess} \cup DeviceErrors :
        LET s == sess_of[t]
            out == AtomicActivate(sess_list[s], sess_size[s], sess_handle[t], dev)
        IN /\ sess_list' = [sess_list EXCEPT ![s] = out.list]
           /\ sess_size' = [sess_size EXCEPT ![s] = out.size]
           /\ sess_ret' = [sess_ret EXCEPT ![t] = out.ret]
    /\ sess_pc' = [sess_pc EXCEPT ![t] = "unlock"]
    /\ UNCHANGED <<sess_count, sess_mutex, sess_of, sess_handle>>
    /\ UNCHANGED <<regVars, thrVars, entryVars, histVars, hidVars>>

\* Line 91: the scoped lock is released when ActivateVibrationDeviceImpl
\* returns; the result is not yet answered.
SessUnlock(t) ==
    /\ sess_pc[t] = "unlock"
    /\ sess_mutex' = [sess_mutex EXCEPT ![sess_of[t]] = NoThread]
    /\ sess_pc' = [sess_pc EXCEPT ![t] = "push"]
    /\ UNCHANGED <<sess_count, sess_list, sess_size, sess_of, sess_handle, sess_ret>>
    /\ UNCHANGED <<regVars, thrVars, entryVars, histVars, hidVars>>

\* Lines 63-65: the response is built and the call is over.
SessRespond(t) ==
    /\ sess_pc[t] = "push"
    /\ sess_pc' = [sess_pc EXCEPT ![t] = "idle"]
    /\ sess_of' = [sess_of EXCEPT ![t] = NoSession]
    /\ sess_handle' = [sess_handle EXCEPT ![t] = ZeroHandle]
    /\ sess_ret' = [sess_ret EXCEPT ![t] = NoResult]
    /\ UNCHANGED <<sess_count, sess_list, sess_size, sess_mutex>>
    /\ UNCHANGED <<regVars, thrVars, entryVars, histVars, hidVars>>

SessNext ==
    \/ CreateActiveVibrationDeviceList
    \/ Complete
    \/ \E t \in Threads :
        \/ \E s \in Sessions, h \in SessionHandles : SessCall(t, s, h)
        \/ SessLock(t)
        \/ SessActivate(t)
        \/ SessUnlock(t)
        \/ SessRespond(t)

SpecSessions == Init /\ [][SessNext]_vars

(* ---------------------------------------------------------------------- *)
(* IHidServer: handlers                                                   *)
(* ---------------------------------------------------------------------- *)

\* applet_resource_user_id values sent by clients.
Aruids == {1, 2}

\* Values of the other fixed parameter of a request (an id or a revision).
ParamValues == {0, 5}

\* Results a Resource Manager device may report.
RmResults == {ResultSuccess, "RmErrorA", "RmErrorB"}

\* Opcodes clients send: every table entry and three that have none.
InputOpcodes == {e[1] : e \in FunctionTable} \cup {2, 90, 3000}

\* Result of dispatching an opcode that has no handler (spec: NotImplemented).
ResultMethodNotSupported == "MethodNotSupported"

BoolRet(b) == IF b THEN "true" ELSE "false"

\* The handler has run: request, response and the calls it made are recorded;
\* nothing else of the service changes.
Dispatch(req, resp, calls) ==
    /\ hid_request' = req
    /\ hid_response' = resp
    /\ hid_calls' = calls
    /\ rm_initialized' =
          (rm_initialized \/ \E i \in DOMAIN calls : calls[i].fn = "Initialize")
    /\ UNCHANGED <<regVars, thrVars, entryVars, histVars, sessVars>>

\* The session handles one request at a time: a handler runs on a fresh
\* HLERequestContext.
Serve(req, resp, calls) ==
    /\ hid_request = NoRequest
    /\ Dispatch(req, resp, calls)

\* An opcode without handler, or without table entry: the fixed result, no
\* parameter decoded, no collaborator called.
Unimplemented ==
    /\ hid_request = NoRequest
    /\ \E op \in InputOpcodes :
        /\ HandlerOf(op) \in {"nullptr", "absent"}
        /\ Dispatch(Request(op, NoArg, FALSE, NoArg),
                    Response(ResultMethodNotSupported, <<>>, 0, <<>>), <<>>)

\* Variant: the per-session activation does not look at the first result.
TwoStepActivationAlways(dev, getter, aruid, managed, r1, r2) ==
    [calls |-> GetResourceManager
               \o <<CallRec("ResourceManager", getter, NoArg, NoResult),
                    CallRec("HidFirmwareSettings", "IsDeviceManaged", NoArg, BoolRet(managed))>>
               \o (IF managed THEN <<>> ELSE <<CallRec(dev, "Activate()", NoArg, r1)>>)
               \o <<CallRec(dev, "Activate(aruid)", aruid, r2)>>,
     result |-> r2]

\* The body shared by the activation handlers of one device: the device is
\* fetched, Activate() is called unless the device is managed, and
\* Activate(applet_resource_user_id) is called if the result so far is success.
\* r1 and r2 are what the two calls return when made.
TwoStepActivation(dev, getter, aruid, managed, r1, r2) ==
    LET first == IF managed THEN ResultSuccess ELSE r1
    IN [calls |-> GetResourceManager
                  \o <<CallRec("ResourceManager", getter, NoArg, NoResult),
                       CallRec("HidFirmwareSettings", "IsDeviceManaged", NoArg,
                               BoolRet(managed))>>
                  \o (IF managed THEN <<>> ELSE <<CallRec(dev, "Activate()", NoArg, r1)>>)
                  \o (IF first = ResultSuccess
                      THEN <<CallRec(dev, "Activate(aruid)", aruid, r2)>>
                      ELSE <<>>),
        result |-> IF first = ResultSuccess THEN r2 ELSE first]

\* Lines 266-285.
ActivateDebugPad ==
    /\ hid_request = NoRequest
    /\ \E op \in InputOpcodes :
        /\ HandlerOf(op) = "ActivateDebugPad"
        /\ \E aruid \in Aruids, managed \in BOOLEAN, r1, r2 \in RmResults :
            LET a == TwoStepActivation("DebugPad", "GetDebugPad", aruid, managed, r1, r2)
               IN Dispatch(Request(op, aruid, managed, NoArg),
                           Response(a.result, <<>>, 0, <<>>), a.calls)

\* Lines 287-306.
ActivateTouchScreen ==
    /\ hid_request = NoRequest
    /\ \E op \in InputOpcodes :
        /\ HandlerOf(op) = "ActivateTouchScreen"
        /\ \E aruid \in Aruids, managed \in BOOLEAN, r1, r2 \in RmResults :
            LET a == TwoStepActivation("TouchScreen", "GetTouchScreen", aruid, managed, r1, r2)
               IN Dispatch(Request(op, aruid, managed, NoArg),
                           Response(a.result, <<>>, 0, <<>>), a.calls)

\* Lines 308-327.
ActivateMouse ==
    /\ hid_request = NoRequest
    /\ \E op \in InputOpcodes :
        /\ HandlerOf(op) = "ActivateMouse"
        /\ \E aruid \in Aruids, managed \in BOOLEAN, r1, r2 \in RmResults :
            LET a == TwoStepActivation("Mouse", "GetMouse", aruid, managed, r1, r2)
               IN Dispatch(Request(op, aruid, managed, NoArg),
                           Response(a.result, <<>>, 0, <<>>), a.calls)

\* Lines 329-348.
ActivateKeyboard ==
    /\ hid_request = NoRequest
    /\ \E op \in InputOpcodes :
        /\ HandlerOf(op) = "ActivateKeyboard"
        /\ \E aruid \in Aruids, managed \in BOOLEAN, r1, r2 \in RmResults :
            LET a == TwoStepActivation("Keyboard", "GetKeyboard", aruid, managed, r1, r2)
               IN Dispatch(Request(op, aruid, managed, NoArg),
                           Response(a.result, <<>>, 0, <<>>), a.calls)

\* Lines 970-998.
ActivateGesture ==
    /\ hid_request = NoRequest
    /\ \E op \in InputOpcodes :
        /\ HandlerOf(op) = "ActivateGesture"
        /\ \E aruid \in Aruids, managed \in BOOLEAN, r1, r2 \in RmResults, p \in ParamValues :
            LET a == TwoStepActivation("Gesture", "GetGesture", aruid, managed, r1, r2)
               IN Dispatch(Request(op, aruid, managed, p),
                           Response(a.result, <<>>, 0, <<>>), a.calls)

\* Lines 1848-1867.
ActivateConsoleSixAxisSensor ==
    /\ hid_request = NoRequest
    /\ \E op \in InputOpcodes :
        /\ HandlerOf(op) = "ActivateConsoleSixAxisSensor"
        /\ \E aruid \in Aruids, managed \in BOOLEAN, r1, r2 \in RmResults :
            LET a == TwoStepActivation("ConsoleSixAxis", "GetConsoleSixAxis", aruid, managed, r1, r2)
               IN Dispatch(Request(op, aruid, managed, NoArg),
                           Response(a.result, <<>>, 0, <<>>), a.calls)

\* Lines 1909-1928: the two calls are made as in the other activation
\* handlers, but the response carries ResultSuccess whatever they returned.
ActivateSevenSixAxisSensor ==
    /\ hid_request = NoRequest
    /\ \E op \in InputOpcodes :
        /\ HandlerOf(op) = "ActivateSevenSixAxisSensor"
        /\ \E aruid \in Aruids, managed \in BOOLEAN, r1, r2 \in RmResults :
            LET a == TwoStepActivation("SevenSixAxis", "GetSevenSixAxis", aruid, managed, r1, r2)
               IN Dispatch(Request(op, aruid, managed, NoArg),
                           Response(ResultSuccess, <<>>, 0, <<>>), a.calls)

\* Lines 1067-1080.
ActivateNpad ==
    /\ hid_request = NoRequest
    /\ \E op \in InputOpcodes :
        /\ HandlerOf(op) = "ActivateNpad"
        /\ \E aruid \in Aruids, r \in RmResults :
            Dispatch(Request(op, aruid, FALSE, NoArg),
                        Response(r, <<>>, 0, <<>>),
                        GetResourceManager
                        \o <<CallRec("ResourceManager", "GetNpad", NoArg, NoResult),
                             CallRec("NPad", "SetRevision(Revision0)", aruid, NoResult),
                             CallRec("NPad", "Activate(aruid)", aruid, r)>>)

\* Lines 1154-1175.
ActivateNpadWithRevision ==
    /\ hid_request = NoRequest
    /\ \E op \in InputOpcodes :
        /\ HandlerOf(op) = "ActivateNpadWithRevision"
        /\ \E aruid \in Aruids, revision \in ParamValues, r \in RmResults :
            Dispatch(Request(op, aruid, FALSE, revision),
                        Response(r, <<>>, 0, <<>>),
                        GetResourceManager
                        \o <<CallRec("ResourceManager", "GetNpad", NoArg, NoResult),
                             CallRec("NPad", "SetRevision(revision)", aruid, NoResult),
                             CallRec("NPad", "Activate(aruid)", aruid, r)>>)

\* Lines 360-371: parameters are popped and logged only. One copy-handle slot, left null.
AcquireXpadIdEventHandle ==
    /\ hid_request = NoRequest
    /\ \E op \in InputOpcodes :
        /\ HandlerOf(op) = "AcquireXpadIdEventHandle"
        /\ \E aruid \in Aruids :
            Dispatch(Request(op, aruid, FALSE, NoArg),
                        Response(ResultSuccess, <<>>, 1, <<>>), <<>>)

\* Lines 373-383: parameters are popped and logged only.
ReleaseXpadIdEventHandle ==
    /\ hid_request = NoRequest
    /\ \E op \in InputOpcodes :
        /\ HandlerOf(op) = "ReleaseXpadIdEventHandle"
        /\ \E aruid \in Aruids :
            Dispatch(Request(op, aruid, FALSE, NoArg),
                        Response(ResultSuccess, <<>>, 0, <<>>), <<>>)

\* Lines 385-403: parameters are popped and logged only.
ActivateXpad ==
    /\ hid_request = NoRequest
    /\ \E op \in InputOpcodes :
        /\ HandlerOf(op) = "ActivateXpad"
        /\ \E aruid \in Aruids, p \in ParamValues :
            Dispatch(Request(op, aruid, FALSE, p),
                        Response(ResultSuccess, <<>>, 0, <<>>), <<>>)

\* Lines 417-427: parameters are popped and logged only.
ActivateJoyXpad ==
    /\ hid_request = NoRequest
    /\ \E op \in InputOpcodes :
        /\ HandlerOf(op) = "ActivateJoyXpad"
        /\ \E p \in ParamValues :
            Dispatch(Request(op, NoArg, FALSE, p),
                        Response(ResultSuccess, <<>>, 0, <<>>), <<>>)

\* Lines 429-440: parameters are popped and logged only. One copy-handle slot, left null.
GetJoyXpadLifoHandle ==
    /\ hid_request = NoRequest
    /\ \E op \in InputOpcodes :
        /\ HandlerOf(op) = "GetJoyXpadLifoHandle"
        /\ \E p \in ParamValues :
            Dispatch(Request(op, NoArg, FALSE, p),
                        Response(ResultSuccess, <<>>, 1, <<>>), <<>>)

\* Lines 453-463: parameters are popped and logged only.
ActivateSixAxisSensor ==
    /\ hid_request = NoRequest
    /\ \E op \in InputOpcodes :
        /\ HandlerOf(op) = "ActivateSixAxisSensor"
        /\ \E p \in ParamValues :
            Dispatch(Request(op, NoArg, FALSE, p),
                        Response(ResultSuccess, <<>>, 0, <<>>), <<>>)

\* Lines 465-475: parameters are popped and logged only. One copy-handle slot, left null.
DeactivateSixAxisSensor ==
    /\ hid_request = NoRequest
    /\ \E op \in InputOpcodes :
        /\ HandlerOf(op) = "DeactivateSixAxisSensor"
        /\ \E p \in ParamValues :
            Dispatch(Request(op, NoArg, FALSE, p),
                        Response(ResultSuccess, <<>>, 1, <<>>), <<>>)

\* Lines 477-487: parameters are popped and logged only.
GetSixAxisSensorLifoHandle ==
    /\ hid_request = NoRequest
    /\ \E op \in InputOpcodes :
        /\ HandlerOf(op) = "GetSixAxisSensorLifoHandle"
        /\ \E p \in ParamValues :
            Dispatch(Request(op, NoArg, FALSE, p),
                        Response(ResultSuccess, <<>>, 0, <<>>), <<>>)

\* Lines 489-499: parameters are popped and logged only.
ActivateJoySixAxisSensor ==
    /\ hid_request = NoRequest
    /\ \E op \in InputOpcodes :
        /\ HandlerOf(op) = "ActivateJoySixAxisSensor"
        /\ \E p \in ParamValues :
            Dispatch(Request(op, NoArg, FALSE, p),
                        Response(ResultSuccess, <<>>, 0, <<>>), <<>>)

\* Lines 501-511: parameters are popped and logged only.
DeactivateJoySixAxisSensor ==
    /\ hid_request = NoRequest
    /\ \E op \in InputOpcodes :
        /\ HandlerOf(op) = "DeactivateJoySixAxisSensor"
        /\ \E p \in ParamValues :
            Dispatch(Request(op, NoArg, FALSE, p),
                        Response(ResultSuccess, <<>>, 0, <<>>), <<>>)

\* Lines 513-524: parameters are popped and logged only. One copy-handle slot, left null.
GetJoySixAxisSensorLifoHandle ==
    /\ hid_request = NoRequest
    /\ \E op \in InputOpcodes :
        /\ HandlerOf(op) = "GetJoySixAxisSensorLifoHandle"
        /\ \E p \in ParamValues :
            Dispatch(Request(op, NoArg, FALSE, p),
                        Response(ResultSuccess, <<>>, 1, <<>>), <<>>)

\* Variant: the retired handler still deactivates through the Resource Manager.
DeactivateNpadDelegating ==
    /\ hid_request = NoRequest
    /\ \E op \in InputOpcodes :
        /\ HandlerOf(op) = "DeactivateNpad"
        /\ \E aruid \in Aruids :
            Dispatch(Request(op, aruid, FALSE, NoArg),
                        Response(ResultSuccess, <<>>, 0, <<>>),
                        GetResourceManager
                        \o <<CallRec("ResourceManager", "GetNpad", NoArg, NoResult)>>)

\* Lines 1082-1092: parameters are popped and logged only.
DeactivateNpad ==
    /\ hid_request = NoRequest
    /\ \E op \in InputOpcodes :
        /\ HandlerOf(op) = "DeactivateNpad"
        /\ \E aruid \in Aruids :
            Dispatch(Request(op, aruid, FALSE, NoArg),
                        Response(ResultSuccess, <<>>, 0, <<>>), <<>>)

\* Lines 2423-2435: parameters are popped and logged only.
SetNpadCommunicationMode ==
    /\ hid_request = NoRequest
    /\ \E op \in InputOpcodes :
        /\ HandlerOf(op) = "SetNpadCommunicationMode"
        /\ \E aruid \in Aruids, p \in ParamValues :
            Dispatch(Request(op, aruid, FALSE, p),
                        Response(ResultSuccess, <<>>, 0, <<>>), <<>>)

\* Lines 2437-2448: parameters are popped and logged only.
GetNpadCommunicationMode ==
    /\ hid_request = NoRequest
    /\ \E op \in InputOpcodes :
        /\ HandlerOf(op) = "GetNpadCommunicationMode"
        /\ \E aruid \in Aruids :
            Dispatch(Request(op, aruid, FALSE, NoArg),
                        Response(ResultSuccess, <<"NpadCommunicationMode::Default">>, 0, <<>>), <<>>)

\* Variant: the count pushed is the one of GetJoyXpadIds.
GetXpadIdsNoCount ==
    /\ hid_request = NoRequest
    /\ \E op \in InputOpcodes :
        /\ HandlerOf(op) = "GetXpadIds"
        /\ LET basic_xpad_id == <<0, 1, 2, 3>>
           IN Dispatch(Request(op, NoArg, FALSE, NoArg),
                       Response(ResultSuccess, <<0>>, 0, basic_xpad_id), <<>>)

\* Lines 405-415: the array {0, 1, 2, 3} is written to the output buffer and
\* its size pushed as the count.
GetXpadIds ==
    /\ hid_request = NoRequest
    /\ \E op \in InputOpcodes :
        /\ HandlerOf(op) = "GetXpadIds"
        /\ LET basic_xpad_id == <<0, 1, 2, 3>>
           IN Dispatch(Request(op, NoArg, FALSE, NoArg),
                       Response(ResultSuccess, <<Len(basic_xpad_id)>>, 0, basic_xpad_id),
                       <<>>)

\* Lines 442-451: no buffer, count 0.
GetJoyXpadIds ==
    /\ hid_request = NoRequest
    /\ \E op \in InputOpcodes :
        /\ HandlerOf(op) = "GetJoyXpadIds"
        /\ Dispatch(Request(op, NoArg, FALSE, NoArg),
                    Response(ResultSuccess, <<0>>, 0, <<>>), <<>>)

(* ---------------------------------------------------------------------- *)
(* Objects created over the resource manager and their use                *)
(* ---------------------------------------------------------------------- *)

\* Lines 252-264: the applet resource is created through GetResourceManager()
\* and the new IAppletResource is given the member resource_manager.
CreateAppletResource ==
    /\ hid_request = NoRequest
    /\ HandlerOf(0) = "CreateAppletResource"
    /\ \E aruid \in Aruids, r \in RmResults :
        Dispatch(Request(0, aruid, FALSE, NoArg),
                 Response(r, <<>>, 0, <<>>),
                 GetResourceManager
                 \o <<CallRec("ResourceManager", "CreateAppletResource", aruid, r),
                      CallRec("IAppletResource", "IAppletResource(resource_manager)", aruid,
                              NoResult)>>)

(* ---------------------------------------------------------------------- *)
(* Wire codec: fixed parameter blocks as byte sequences                   *)
(* ---------------------------------------------------------------------- *)

\* Little-endian bytes of an unsigned value stored in n bytes.
RECURSIVE ToBytes(_, _)
ToBytes(x, n) == IF n = 0 THEN <<>> ELSE <<x % 256>> \o ToBytes(x \div 256, n - 1)

\* The unsigned value of a little-endian byte sequence.
RECURSIVE FromBytes(_)
FromBytes(b) == IF b = <<>> THEN 0 ELSE b[1] + 256 * FromBytes(Tail(b))

\* A handle on the wire: one byte per field and one byte of padding.
PushRawHandle(h) == <<h.npad_type, h.npad_id, h.device_index, 0>>

PopRawHandle(b) == [npad_type |-> b[1], npad_id |-> b[2], device_index |-> b[3]]

\* Bit patterns of the f32 values used as fusion parameters: 0.03f, 0.4f.
FloatBits == {1022739087, 1053609165}

\* Core::HID::SixAxisSensorFusionParameters values clients and devices use.
FusionValues == [parameter1 : FloatBits, parameter2 : FloatBits]

\* rb.PushRaw of a SixAxisSensorFusionParameters: two f32, 8 bytes.
PushRawFusion(f) == ToBytes(f.parameter1, 4) \o ToBytes(f.parameter2, 4)

PopRawFusion(b) ==
    [parameter1 |-> FromBytes(SubSeq(b, 1, 4)), parameter2 |-> FromBytes(SubSeq(b, 5, 8))]

\* Contents of a padding word, which the sender need not initialise.
PaddingWords == {<<0, 0, 0, 0>>, <<171, 205, 239, 1>>}

\* Handles sent to the six-axis and vibration handlers.
HandlerHandles == SessionHandles

\* The 0x18-byte block a client sends with opcode 70 for the typed value p.
WriteSetFusionParameters(p, pad) ==
    PushRawHandle(p.sixaxis_handle) \o PushRawFusion(p.sixaxis_fusion) \o pad
    \o ToBytes(p.applet_resource_user_id, 8)

\* The 0x10-byte block of a handle and an applet_resource_user_id.
WriteHandleParameters(h, pad, aruid) == PushRawHandle(h) \o pad \o ToBytes(aruid, 8)

\* Variant: sixaxis_fusion is declared before sixaxis_handle.
PopRawSetFusionParametersSwapped(b) ==
    [sixaxis_handle |-> PopRawHandle(SubSeq(b, 9, 12)),
     sixaxis_fusion |-> PopRawFusion(SubSeq(b, 1, 8)),
     applet_resource_user_id |-> FromBytes(SubSeq(b, 17, 24))]

\* Lines 627-635: rp.PopRaw<Parameters>() of SetSixAxisSensorFusionParameters:
\* handle at 0, fusion at 4, a padding word at 12, the u64 at 16.
PopRawSetFusionParameters(b) ==
    [sixaxis_handle |-> PopRawHandle(SubSeq(b, 1, 4)),
     sixaxis_fusion |-> PopRawFusion(SubSeq(b, 5, 12)),
     applet_resource_user_id |-> FromBytes(SubSeq(b, 17, 24))]

\* rp.PopRaw<Parameters>() of the handlers taking a handle, a padding word and
\* the u64 applet_resource_user_id (0x10 bytes).
PopRawHandleParameters(b) ==
    [handle |-> PopRawHandle(SubSeq(b, 1, 4)),
     applet_resource_user_id |-> FromBytes(SubSeq(b, 9, 16))]

(* ---------------------------------------------------------------------- *)
(* IHidServer: six-axis fusion, vibration and palma handlers              *)
(* ---------------------------------------------------------------------- *)

\* Lines 625-650.
SetSixAxisSensorFusionParameters ==
    /\ hid_request = NoRequest
    /\ HandlerOf(70) = "SetSixAxisSensorFusionParameters"
    /\ \E h \in HandlerHandles, f \in FusionValues, aruid \in Aruids,
          pad \in PaddingWords, r \in RmResults :
        LET value == [sixaxis_handle |-> h, sixaxis_fusion |-> f,
                      applet_resource_user_id |-> aruid]
            raw == WriteSetFusionParameters(value, pad)
            parameters == PopRawSetFusionParameters(raw)
        IN Serve(Request(70, aruid, FALSE, [raw |-> raw, value |-> value]),
                    Response(r, <<>>, 0, <<>>),
                    GetResourceManager
                    \o <<CallRec("ResourceManager", "GetSixAxis", NoArg, NoResult),
                         CallRec("SixAxis", "SetSixAxisFusionParameters",
                                 [handle |-> parameters.sixaxis_handle,
                                  fusion |-> parameters.sixaxis_fusion], r)>>)

\* Lines 652-676: fusion_parameters is value-initialised, handed to the device
\* as an out parameter and pushed raw after the result; out is what the
\* device leaves in it.
GetSixAxisSensorFusionParameters ==
    /\ hid_request = NoRequest
    /\ HandlerOf(71) = "GetSixAxisSensorFusionParameters"
    /\ \E h \in HandlerHandles, aruid \in Aruids, pad \in PaddingWords,
          r \in RmResults, out \in FusionValues :
        LET raw == WriteHandleParameters(h, pad, aruid)
            parameters == PopRawHandleParameters(raw)
        IN Serve(Request(71, aruid, FALSE,
                            [raw |-> raw,
                             value |-> [handle |-> h, applet_resource_user_id |-> aruid]]),
                    Response(r, PushRawFusion(out), 0, <<>>),
                    GetResourceManager
                    \o <<CallRec("ResourceManager", "GetSixAxis", NoArg, NoResult),
                         CallRec("SixAxis", "GetSixAxisFusionParameters",
                                 [handle |-> parameters.handle, fusion |-> out], r)>>)

\* sizeof(Core::HID::NpadIdType), sizeof(Core::HID::VibrationDeviceHandle).
WordSize == 4

\* sizeof(Core::HID::VibrationValue): four f32.
VibrationValueSize == 16

\* Core::HID::DEFAULT_VIBRATION_VALUE: amplitudes 0, frequencies 160.0f and 320.0f.
DEFAULT_VIBRATION_VALUE ==
    [low_amplitude |-> 0, low_frequency |-> 1126170624,
     high_amplitude |-> 0, high_frequency |-> 1134559232]

\* A value-initialised Core::HID::VibrationValue{}.
ZeroVibrationValue ==
    [low_amplitude |-> 0, low_frequency |-> 0, high_amplitude |-> 0, high_frequency |-> 0]

\* Vibration values clients send and devices report (1065353216 is 1.0f).
VibrationValues ==
    {DEFAULT_VIBRATION_VALUE,
     [low_amplitude |-> 1065353216, low_frequency |-> 1126170624,
      high_amplitude |-> 1053609165, high_frequency |-> 1134559232]}

PushRawVibrationValue(v) ==
    ToBytes(v.low_amplitude, 4) \o ToBytes(v.low_frequency, 4)
    \o ToBytes(v.high_amplitude, 4) \o ToBytes(v.high_frequency, 4)

PopRawVibrationValue(b) ==
    [low_amplitude |-> FromBytes(SubSeq(b, 1, 4)),
     low_frequency |-> FromBytes(SubSeq(b, 5, 8)),
     high_amplitude |-> FromBytes(SubSeq(b, 9, 12)),
     high_frequency |-> FromBytes(SubSeq(b, 13, 16))]

\* Bytes a client may leave after the last whole element of a buffer.
TrailingBytes == {<<>>, <<7>>}

\* Sequences over S of at most MaxElements elements.
Lists(S) == UNION {[1..n -> S] : n \in 0..MaxElements}

\* Handles clients put into the handle buffer of SendVibrationValues.
BufferHandles == {h \in SessionHandles : h.npad_type = 3 /\ h.device_index < 2}

\* What the sends of one request return: all succeed, or exactly the send of
\* pair k - 1 reports an error.
SendResults(n) ==
    {[i \in 1..n |-> IF i = k THEN e ELSE ResultSuccess] :
        k \in 0..n, e \in RmResults \ {ResultSuccess}}

\* Stray bytes after the handle buffer and after the value buffer.
TailPairs == {<<t[1], t[2]>> : t \in {u \in TrailingBytes \X TrailingBytes :
                                         u[1] = <<>> \/ u[2] = <<>>}}

\* Value buffers clients send: up to MaxElements values, neighbours differing.
ValueLists ==
    {[i \in 1..n |-> CHOOSE v \in VibrationValues :
                        (v = DEFAULT_VIBRATION_VALUE) <=> (i % 2 = 1)] : n \in 0..MaxElements}

\* A buffer holding the given elements, each already a byte sequence.
RECURSIVE WriteBuffer(_)
WriteBuffer(elements) ==
    IF elements = <<>> THEN <<>> ELSE elements[1] \o WriteBuffer(Tail(elements))

WriteNpadId(id) == ToBytes(id, 4)

\* ctx.GetReadBufferNumElements<T>(): the byte length divided by sizeof(T).
GetReadBufferNumElements(buffer, size) == Len(buffer) \div size

\* Element i (from 0) of a buffer viewed as elements of the given size.
ElementAt(buffer, size, i) == SubSeq(buffer, size * i + 1, size * i + size)

\* What may follow a memcpy of count bytes into dst_size bytes: beyond the
\* destination the behaviour is undefined, and the request either goes on or
\* the process dies.
MemcpyOutcomes(dst_size, count) ==
    IF count > dst_size THEN {"continues", "aborts"} ELSE {"continues"}

\* Lines 1048-1065: a vector of `elements` ids is allocated and
\* buffer.size() bytes are copied into it.
SetSupportedNpadIdType ==
    /\ hid_request = NoRequest
    /\ HandlerOf(102) = "SetSupportedNpadIdType"
    /\ \E aruid \in Aruids, ids \in Lists({0, 1}), tail \in TrailingBytes, r \in RmResults :
        LET buffer == WriteBuffer([i \in DOMAIN ids |-> WriteNpadId(ids[i])]) \o tail
            elements == GetReadBufferNumElements(buffer, WordSize)
            copy == CallRec("std", "memcpy",
                            [dst_size |-> elements * WordSize, count |-> Len(buffer)],
                            NoResult)
            supported_npad_list ==
                [i \in 1..elements |-> FromBytes(ElementAt(buffer, WordSize, i - 1))]
        IN \E outcome \in MemcpyOutcomes(elements * WordSize, Len(buffer)) :
            IF outcome = "aborts"
            THEN Serve(Request(102, aruid, FALSE, [buffers |-> <<buffer>>]),
                          NoResponse, <<copy>>)
            ELSE Serve(Request(102, aruid, FALSE, [buffers |-> <<buffer>>]),
                          Response(r, <<>>, 0, <<>>),
                          <<copy>> \o GetResourceManager
                          \o <<CallRec("ResourceManager", "GetNpad", NoArg, NoResult),
                               CallRec("NPad", "SetSupportedNpadIdType",
                                       [aruid |-> aruid, list |-> supported_npad_list], r)>>)

\* Variant: unless the counts differ, every pair is sent, whatever the
\* earlier sends returned.
RECURSIVE SendLoopNoStop(_, _, _, _, _, _, _)
SendLoopNoStop(i, handle_count, handle_data, vibration_data, aruid, rs, acc) ==
    IF i < handle_count /\ acc.result # "ResultVibrationArraySizeMismatch"
    THEN SendLoopNoStop(i + 1, handle_count, handle_data, vibration_data, aruid, rs,
            [result |-> rs[i + 1],
             calls |-> acc.calls \o GetResourceManager
                 \o <<CallRec("ResourceManager", "SendVibrationValue",
                         [aruid |-> aruid, index |-> i,
                          handle |-> PopRawHandle(ElementAt(handle_data, WordSize, i)),
                          value |-> PopRawVibrationValue(
                                        ElementAt(vibration_data, VibrationValueSize, i))],
                         rs[i + 1])>>])
    ELSE acc

\* The loop of lines 1660-1665 from index i: acc holds the result so far and
\* the calls made; rs[i + 1] is what the send of pair i returns when made.
RECURSIVE SendLoop(_, _, _, _, _, _, _)
SendLoop(i, handle_count, handle_data, vibration_data, aruid, rs, acc) ==
    IF i < handle_count
    THEN IF acc.result = ResultSuccess
         THEN SendLoop(i + 1, handle_count, handle_data, vibration_data, aruid, rs,
                  [result |-> rs[i + 1],
                   calls |-> acc.calls \o GetResourceManager
                       \o <<CallRec("ResourceManager", "SendVibrationValue",
                               [aruid |-> aruid, index |-> i,
                                handle |-> PopRawHandle(ElementAt(handle_data, WordSize, i)),
                                value |-> PopRawVibrationValue(
                                              ElementAt(vibration_data, VibrationValueSize, i))],
                               rs[i + 1])>>])
         ELSE SendLoop(i + 1, handle_count, handle_data, vibration_data, aruid, rs, acc)
    ELSE acc

ResultVibrationArraySizeMismatch == "ResultVibrationArraySizeMismatch"

\* Lines 1638-1669.
SendVibrationValues ==
    /\ hid_request = NoRequest
    /\ HandlerOf(206) = "SendVibrationValues"
    /\ \E aruid \in Aruids, hs \in Lists(BufferHandles), vs \in ValueLists,
          tails \in TailPairs :
        LET htail == tails[1]
            vtail == tails[2]
            handle_data == WriteBuffer([i \in DOMAIN hs |-> PushRawHandle(hs[i])]) \o htail
            vibration_data == WriteBuffer([i \in DOMAIN vs |-> PushRawVibrationValue(vs[i])])
                              \o vtail
            handle_count == GetReadBufferNumElements(handle_data, WordSize)
            vibration_count == GetReadBufferNumElements(vibration_data, VibrationValueSize)
            result0 == IF handle_count # vibration_count
                       THEN ResultVibrationArraySizeMismatch
                       ELSE ResultSuccess
        IN \E rs \in SendResults(IF result0 = ResultSuccess THEN handle_count ELSE 0) :
            LET out == SendLoop(0, handle_count, handle_data, vibration_data, aruid, rs,
                                [result |-> result0, calls |-> <<>>])
            IN Serve(Request(206, aruid, FALSE,
                                [buffers |-> <<handle_data, vibration_data>>,
                                 handles |-> hs, values |-> vs]),
                        Response(out.result, <<>>, 0, <<>>), out.calls)

\* Variant: the device is fetched whenever the aruid is active.
VibrationDeviceCallUnvalidated(aruid, h, getter, dev, fn, arg, aruid_result, has_active_aruid, present, r) ==
    LET go == aruid_result = ResultSuccess /\ has_active_aruid
        valid == IsVibrationHandleValid(h)
        result1 == IF go THEN valid ELSE aruid_result
        go2 == has_active_aruid
        fetched == go2 /\ present
    IN [calls |->
            GetResourceManager
            \o <<CallRec("ResourceManager", "IsVibrationAruidActive",
                         [aruid |-> aruid, has_active_aruid |-> has_active_aruid],
                         aruid_result)>>
            \o (IF go
                THEN <<CallRec("hid_util", "IsVibrationHandleValid", h, valid)>>
                ELSE <<>>)
            \o (IF go2
                THEN GetResourceManager
                     \o <<CallRec("ResourceManager", getter, h, BoolRet(present))>>
                ELSE <<>>)
            \o (IF fetched THEN <<CallRec(dev, fn, arg, r)>> ELSE <<>>),
        result |-> IF fetched THEN r ELSE result1,
        device |-> fetched]

\* The body shared by SendVibrationGcErmCommand (lines 1690-1704),
\* SendVibrationValueInBool (lines 1827-1842) and GetActualVibrationValue
\* (lines 1579-1593): the aruid check, then the handle validation, then the
\* device accessor (present: it returns a device, not nullptr), then the
\* device call fn.
VibrationDeviceCall(aruid, h, getter, dev, fn, arg, aruid_result, has_active_aruid, present, r) ==
    LET go == aruid_result = ResultSuccess /\ has_active_aruid
        valid == IsVibrationHandleValid(h)
        result1 == IF go THEN valid ELSE aruid_result
        go2 == result1 = ResultSuccess /\ has_active_aruid
        fetched == go2 /\ present
    IN [calls |->
            GetResourceManager
            \o <<CallRec("ResourceManager", "IsVibrationAruidActive",
                         [aruid |-> aruid, has_active_aruid |-> has_active_aruid],
                         aruid_result)>>
            \o (IF go
                THEN <<CallRec("hid_util", "IsVibrationHandleValid", h, valid)>>
                ELSE <<>>)
            \o (IF go2
                THEN GetResourceManager
                     \o <<CallRec("ResourceManager", getter, h, BoolRet(present))>>
                ELSE <<>>)
            \o (IF fetched THEN <<CallRec(dev, fn, arg, r)>> ELSE <<>>),
        result |-> IF fetched THEN r ELSE result1,
        device |-> fetched]

\* Values of Core::HID::VibrationGcErmCommand: Stop, Start, StopHard.
GcErmCommands == {0, 1, 2}

\* Lines 1671-1708.
SendVibrationGcErmCommand ==
    /\ hid_request = NoRequest
    /\ HandlerOf(207) = "SendVibrationGcErmCommand"
    /\ \E aruid \in Aruids, h \in HandlerHandles, cmd \in GcErmCommands,
          ar \in RmResults, active \in BOOLEAN, present \in BOOLEAN, r \in RmResults :
        LET out == VibrationDeviceCall(aruid, h, "GetGcVibrationDevice", "NpadGcVibrationDevice",
                                       "SendVibrationGcErmCommand", cmd, ar, active, present, r)
        IN Serve(Request(207, aruid, FALSE, [handle |-> h, value |-> cmd]),
                 Response(out.result, <<>>, 0, <<>>), out.calls)

\* Lines 1808-1846.
SendVibrationValueInBool ==
    /\ hid_request = NoRequest
    /\ HandlerOf(212) = "SendVibrationValueInBool"
    /\ \E aruid \in Aruids, h \in HandlerHandles, is_vibrating \in BOOLEAN,
          ar \in RmResults, active \in BOOLEAN, present \in BOOLEAN, r \in RmResults :
        LET out == VibrationDeviceCall(aruid, h, "GetN64VibrationDevice",
                                       "NpadN64VibrationDevice", "SendValueInBool",
                                       is_vibrating, ar, active, present, r)
        IN Serve(Request(212, aruid, FALSE, [handle |-> h, value |-> is_vibrating]),
                 Response(out.result, <<>>, 0, <<>>), out.calls)

\* Lines 1774-1806: is_mounted is value-initialised and set only by a device.
IsVibrationDeviceMounted ==
    /\ hid_request = NoRequest
    /\ HandlerOf(211) = "IsVibrationDeviceMounted"
    /\ \E aruid \in Aruids, h \in HandlerHandles, present \in BOOLEAN, mounted \in BOOLEAN :
        LET is_valid == IsVibrationHandleValid(h)
            fetched == is_valid = ResultSuccess /\ present
            is_mounted == IF fetched THEN mounted ELSE FALSE
        IN Serve(Request(211, aruid, FALSE, [handle |-> h, value |-> NoArg]),
                 Response(is_valid, <<is_mounted>>, 0, <<>>),
                 <<CallRec("hid_util", "IsVibrationHandleValid", h, is_valid)>>
                 \o (IF is_valid = ResultSuccess
                     THEN GetResourceManager
                          \o <<CallRec("ResourceManager", "GetVibrationDevice", h,
                                       BoolRet(present))>>
                     ELSE <<>>)
                 \o (IF fetched
                     THEN <<CallRec("NpadVibrationBase", "IsVibrationMounted", NoArg,
                                    BoolRet(mounted))>>
                     ELSE <<>>))

\* Contents of a Palma::PalmaOperationData, abstracted to a filling byte.
PalmaOperationDataValues == {[i \in 1..8 |-> 0], [i \in 1..8 |-> 171]}

\* Values of Palma::PalmaOperationType held by operation_type.
PalmaOperationTypes == {0, 1}

\* Construction of an IPC::ResponseBuilder with the given number of words.
ResponseBuilder(words) == CallRec("ctx", "ResponseBuilder", words, NoResult)

\* Lines 2081-2101: operation_type and data are uninitialised locals handed to
\* the delegate as out parameters; ty and data are what they hold after the
\* call. The error branch builds a response and falls through to the common
\* tail, which writes the buffer and builds the response again.
GetPalmaOperationInfo ==
    /\ hid_request = NoRequest
    /\ HandlerOf(503) = "GetPalmaOperationInfo"
    /\ \E connection_handle \in ConfiguredNpadIds, r \in RmResults,
          ty \in PalmaOperationTypes, data \in PalmaOperationDataValues :
        Serve(Request(503, NoArg, FALSE, [handle |-> connection_handle]),
              Response(r, <<ty>>, 0, data),
              GetResourceManager
              \o <<CallRec("ResourceManager", "GetPalma", NoArg, NoResult),
                   CallRec("Palma", "GetPalmaOperationInfo",
                           [handle |-> connection_handle, operation_type |-> ty,
                            data |-> data], r)>>
              \o (IF IsError(r) THEN <<ResponseBuilder(2)>> ELSE <<>>)
              \o <<CallRec("ctx", "WriteBuffer", data, NoResult), ResponseBuilder(4)>>)

\* Variant: the handler returns at the first delegate call's error.
ResetFusionCallsShortCircuit(h, r1, r2) ==
    [calls |->
        GetResourceManager
        \o <<CallRec("ResourceManager", "GetSixAxis", NoArg, NoResult),
             CallRec("SixAxis", "SetSixAxisFusionParameters",
                     [handle |-> h,
                      fusion |-> [parameter1 |-> 1022739087, parameter2 |-> 1053609165]],
                     r1)>>
        \o (IF IsError(r1)
            THEN <<>>
            ELSE <<CallRec("SixAxis", "SetSixAxisFusionEnabled",
                           [handle |-> h, enabled |-> TRUE], r2)>>),
     result |-> IF IsError(r1) THEN r1 ELSE r2]

\* Lines 690-709: fusion_parameters is {0.03f, 0.4f} (the f32 bit patterns
\* 0x3CF5C28F and 0x3ECCCCCD); result1 and result2 are both computed before
\* the response is built.
ResetFusionCalls(h, r1, r2) ==
    [calls |->
        GetResourceManager
        \o <<CallRec("ResourceManager", "GetSixAxis", NoArg, NoResult),
             CallRec("SixAxis", "SetSixAxisFusionParameters",
                     [handle |-> h,
                      fusion |-> [parameter1 |-> 1022739087, parameter2 |-> 1053609165]],
                     r1),
             CallRec("SixAxis", "SetSixAxisFusionEnabled",
                     [handle |-> h, enabled |-> TRUE], r2)>>,
     result |-> IF IsError(r1) THEN r1 ELSE r2]

\* Lines 678-710.
ResetSixAxisSensorFusionParameters ==
    /\ hid_request = NoRequest
    /\ HandlerOf(72) = "ResetSixAxisSensorFusionParameters"
    /\ \E h \in HandlerHandles, aruid \in Aruids, pad \in PaddingWords,
          r1 \in RmResults, r2 \in RmResults :
        LET raw == WriteHandleParameters(h, pad, aruid)
            parameters == PopRawHandleParameters(raw)
            out == ResetFusionCalls(parameters.handle, r1, r2)
        IN Serve(Request(72, aruid, FALSE,
                         [raw |-> raw,
                          value |-> [handle |-> h, applet_resource_user_id |-> aruid]]),
                 Response(out.result, <<>>, 0, <<>>), out.calls)

\* Variant: the value is pushed as the device call left it.
ActualVibrationValueNoDefault(last_result, fetched, out) ==
    IF fetched THEN out ELSE ZeroVibrationValue

\* Lines 1581, 1591-1596: vibration_value is value-initialised, handed to the
\* device as an out parameter when there is one (out is what the device
\* leaves in it) and replaced by the default when result, here last_result,
\* is an error.
ActualVibrationValue(last_result, fetched, out) ==
    IF IsError(last_result)
    THEN DEFAULT_VIBRATION_VALUE
    ELSE IF fetched THEN out ELSE ZeroVibrationValue

\* Lines 1562-1601.
GetActualVibrationValue ==
    /\ hid_request = NoRequest
    /\ HandlerOf(202) = "GetActualVibrationValue"
    /\ \E aruid \in Aruids, h \in HandlerHandles, ar \in RmResults, active \in BOOLEAN,
          present \in BOOLEAN, r \in RmResults, out \in VibrationValues :
        LET dev == VibrationDeviceCall(aruid, h, "GetNSVibrationDevice", "NpadVibrationDevice",
                                       "GetActualVibrationValue", out, ar, active, present, r)
            vibration_value == ActualVibrationValue(dev.result, dev.device, out)
        IN Serve(Request(202, aruid, FALSE, [handle |-> h, value |-> NoArg]),
                 Response(ResultSuccess, PushRawVibrationValue(vibration_value), 0, <<>>),
                 dev.calls \o <<ResponseBuilder(6)>>)

(* ---------------------------------------------------------------------- *)
(* IHidServer: the other handlers of the command table                    *)
(* ---------------------------------------------------------------------- *)

\* GetResourceManager()->getter()->fn(arg), which returned r.
Delegate(getter, obj, fn, arg, r) ==
    GetResourceManager
    \o <<CallRec("ResourceManager", getter, NoArg, NoResult), CallRec(obj, fn, arg, r)>>

\* What a delegate leaves in a flag handed to it as an out parameter.
Flags == BOOLEAN

\* Contents a delegate leaves in an out structure, abstracted to a filling byte.
OutFill == {0, 171}

\* Values of Core::HID::GyroscopeZeroDriftMode: Loose, Standard, Tight.
DriftModes == {0, 1, 2}

\* Core::HID::NpadStyleSet values clients send: fullkey | handheld, palma.
NpadStyleSets == {3, 64}

\* Values of NpadRevision a GetRevision call returns.
NpadRevisions == {0, 3}

\* Lines 350-358: the flags are popped and logged only.
SendKeyboardLockKeyEvent ==
    /\ hid_request = NoRequest
    /\ HandlerOf(32) = "SendKeyboardLockKeyEvent"
    /\ \E flags \in ParamValues :
        Serve(Request(32, NoArg, FALSE, flags), Response(ResultSuccess, <<>>, 0, <<>>), <<>>)

\* Lines 526-547.
StartSixAxisSensor ==
    /\ hid_request = NoRequest
    /\ HandlerOf(66) = "StartSixAxisSensor"
    /\ \E h \in HandlerHandles, aruid \in Aruids, r \in RmResults :
        Serve(Request(66, aruid, FALSE, [handle |-> h, value |-> NoArg]),
              Response(r, <<>>, 0, <<>>),
              Delegate("GetSixAxis", "SixAxis", "SetSixAxisEnabled",
                       [handle |-> h, enabled |-> TRUE], r))

\* Lines 549-570.
StopSixAxisSensor ==
    /\ hid_request = NoRequest
    /\ HandlerOf(67) = "StopSixAxisSensor"
    /\ \E h \in HandlerHandles, aruid \in Aruids, r \in RmResults :
        Serve(Request(67, aruid, FALSE, [handle |-> h, value |-> NoArg]),
              Response(r, <<>>, 0, <<>>),
              Delegate("GetSixAxis", "SixAxis", "SetSixAxisEnabled",
                       [handle |-> h, enabled |-> FALSE], r))

\* Lines 572-596: is_enabled is value-initialised and pushed as the delegate
\* left it.
IsSixAxisSensorFusionEnabled ==
    /\ hid_request = NoRequest
    /\ HandlerOf(68) = "IsSixAxisSensorFusionEnabled"
    /\ \E h \in HandlerHandles, aruid \in Aruids, r \in RmResults, is_enabled \in Flags :
        Serve(Request(68, aruid, FALSE, [handle |-> h, value |-> NoArg]),
              Response(r, <<is_enabled>>, 0, <<>>),
              Delegate("GetSixAxis", "SixAxis", "IsSixAxisSensorFusionEnabled",
                       [handle |-> h, is_enabled |-> is_enabled], r))

\* Lines 598-623.
EnableSixAxisSensorFusion ==
    /\ hid_request = NoRequest
    /\ HandlerOf(69) = "EnableSixAxisSensorFusion"
    /\ \E h \in HandlerHandles, aruid \in Aruids, r \in RmResults,
          enable_sixaxis_sensor_fusion \in BOOLEAN :
        Serve(Request(69, aruid, FALSE,
                      [handle |-> h, value |-> enable_sixaxis_sensor_fusion]),
              Response(r, <<>>, 0, <<>>),
              Delegate("GetSixAxis", "SixAxis", "SetSixAxisFusionEnabled",
                       [handle |-> h, enabled |-> enable_sixaxis_sensor_fusion], r))

\* Lines 712-729.
SetGyroscopeZeroDriftMode ==
    /\ hid_request = NoRequest
    /\ HandlerOf(79) = "SetGyroscopeZeroDriftMode"
    /\ \E h \in HandlerHandles, aruid \in Aruids, r \in RmResults, drift_mode \in DriftModes :
        Serve(Request(79, aruid, FALSE, [handle |-> h, value |-> drift_mode]),
              Response(r, <<>>, 0, <<>>),
              Delegate("GetSixAxis", "SixAxis", "SetGyroscopeZeroDriftMode",
                       [handle |-> h, drift_mode |-> drift_mode], r))

\* Lines 731-754: drift_mode starts as Standard and is pushed as the delegate
\* left it.
GetGyroscopeZeroDriftMode ==
    /\ hid_request = NoRequest
    /\ HandlerOf(80) = "GetGyroscopeZeroDriftMode"
    /\ \E h \in HandlerHandles, aruid \in Aruids, r \in RmResults, drift_mode \in DriftModes :
        Serve(Request(80, aruid, FALSE, [handle |-> h, value |-> NoArg]),
              Response(r, <<drift_mode>>, 0, <<>>),
              Delegate("GetSixAxis", "SixAxis", "GetGyroscopeZeroDriftMode",
                       [handle |-> h, drift_mode |-> drift_mode], r))

\* Lines 756-778: the mode set is GyroscopeZeroDriftMode::Standard.
ResetGyroscopeZeroDriftMode ==
    /\ hid_request = NoRequest
    /\ HandlerOf(81) = "ResetGyroscopeZeroDriftMode"
    /\ \E h \in HandlerHandles, aruid \in Aruids, r \in RmResults :
        Serve(Request(81, aruid, FALSE, [handle |-> h, value |-> NoArg]),
              Response(r, <<>>, 0, <<>>),
              Delegate("GetSixAxis", "SixAxis", "SetGyroscopeZeroDriftMode",
                       [handle |-> h, drift_mode |-> 1], r))

\* Lines 780-803: what the delegate returns is discarded.
IsSixAxisSensorAtRest ==
    /\ hid_request = NoRequest
    /\ HandlerOf(82) = "IsSixAxisSensorAtRest"
    /\ \E h \in HandlerHandles, aruid \in Aruids, is_at_rest \in Flags :
        Serve(Request(82, aruid, FALSE, [handle |-> h, value |-> NoArg]),
              Response(ResultSuccess, <<is_at_rest>>, 0, <<>>),
              Delegate("GetSixAxis", "SixAxis", "IsSixAxisSensorAtRest",
                       [handle |-> h, is_at_rest |-> is_at_rest], NoResult))

\* Lines 805-830: what the delegate returns is discarded.
IsFirmwareUpdateAvailableForSixAxisSensor ==
    /\ hid_request = NoRequest
    /\ HandlerOf(83) = "IsFirmwareUpdateAvailableForSixAxisSensor"
    /\ \E h \in HandlerHandles, aruid \in Aruids, is_firmware_available \in Flags :
        Serve(Request(83, aruid, FALSE, [handle |-> h, value |-> NoArg]),
              Response(ResultSuccess, <<is_firmware_available>>, 0, <<>>),
              Delegate("GetNpad", "NPad", "IsFirmwareUpdateAvailableForSixAxisSensor",
                       [aruid |-> aruid, handle |-> h,
                        is_firmware_available |-> is_firmware_available], NoResult))

\* Lines 832-856.
EnableSixAxisSensorUnalteredPassthrough ==
    /\ hid_request = NoRequest
    /\ HandlerOf(84) = "EnableSixAxisSensorUnalteredPassthrough"
    /\ \E h \in HandlerHandles, aruid \in Aruids, r \in RmResults, enabled \in BOOLEAN :
        Serve(Request(84, aruid, FALSE, [handle |-> h, value |-> enabled]),
              Response(r, <<>>, 0, <<>>),
              Delegate("GetSixAxis", "SixAxis", "EnableSixAxisSensorUnalteredPassthrough",
                       [handle |-> h, enabled |-> enabled], r))

\* Lines 858-883.
IsSixAxisSensorUnalteredPassthroughEnabled ==
    /\ hid_request = NoRequest
    /\ HandlerOf(85) = "IsSixAxisSensorUnalteredPassthroughEnabled"
    /\ \E h \in HandlerHandles, aruid \in Aruids, r \in RmResults,
          is_unaltered_sisxaxis_enabled \in Flags :
        Serve(Request(85, aruid, FALSE, [handle |-> h, value |-> NoArg]),
              Response(r, <<is_unaltered_sisxaxis_enabled>>, 0, <<>>),
              Delegate("GetSixAxis", "SixAxis", "IsSixAxisSensorUnalteredPassthroughEnabled",
                       [handle |-> h, is_enabled |-> is_unaltered_sisxaxis_enabled], r))

\* Lines 885-913: the calibration is written to the output buffer only when
\* the delegate succeeded.
LoadSixAxisSensorCalibrationParameter ==
    /\ hid_request = NoRequest
    /\ HandlerOf(87) = "LoadSixAxisSensorCalibrationParameter"
    /\ \E h \in HandlerHandles, aruid \in Aruids, r \in RmResults, calibration \in OutFill :
        Serve(Request(87, aruid, FALSE, [handle |-> h, value |-> NoArg]),
              Response(r, <<>>, 0, IF IsError(r) THEN <<>> ELSE <<calibration>>),
              Delegate("GetSixAxis", "SixAxis", "LoadSixAxisSensorCalibrationParameter",
                       [handle |-> h, calibration |-> calibration], r)
              \o (IF IsError(r)
                  THEN <<>>
                  ELSE <<CallRec("ctx", "WriteBuffer", calibration, NoResult)>>))

\* Lines 915-943: as above, for the ic information.
GetSixAxisSensorIcInformation ==
    /\ hid_request = NoRequest
    /\ HandlerOf(88) = "GetSixAxisSensorIcInformation"
    /\ \E h \in HandlerHandles, aruid \in Aruids, r \in RmResults, ic_information \in OutFill :
        Serve(Request(88, aruid, FALSE, [handle |-> h, value |-> NoArg]),
              Response(r, <<>>, 0, IF IsError(r) THEN <<>> ELSE <<ic_information>>),
              Delegate("GetSixAxis", "SixAxis", "GetSixAxisSensorIcInformation",
                       [handle |-> h, ic_information |-> ic_information], r)
              \o (IF IsError(r)
                  THEN <<>>
                  ELSE <<CallRec("ctx", "WriteBuffer", ic_information, NoResult)>>))

\* Lines 945-968.
ResetIsSixAxisSensorDeviceNewlyAssigned ==
    /\ hid_request = NoRequest
    /\ HandlerOf(89) = "ResetIsSixAxisSensorDeviceNewlyAssigned"
    /\ \E h \in HandlerHandles, aruid \in Aruids, r \in RmResults :
        Serve(Request(89, aruid, FALSE, [handle |-> h, value |-> NoArg]),
              Response(r, <<>>, 0, <<>>),
              Delegate("GetNpad", "NPad", "ResetIsSixAxisSensorDeviceNewlyAssigned",
                       [aruid |-> aruid, handle |-> h], r))

\* Lines 1000-1030: after a success the revision is read; the palma boost it
\* once led to is commented out.
SetSupportedNpadStyleSet ==
    /\ hid_request = NoRequest
    /\ HandlerOf(100) = "SetSupportedNpadStyleSet"
    /\ \E aruid \in Aruids, supported_style_set \in NpadStyleSets, r \in RmResults,
          revision \in NpadRevisions :
        Serve(Request(100, aruid, FALSE, supported_style_set),
              Response(r, <<>>, 0, <<>>),
              Delegate("GetNpad", "NPad", "SetSupportedNpadStyleSet",
                       [aruid |-> aruid, supported_style_set |-> supported_style_set], r)
              \o (IF IsError(r)
                  THEN <<>>
                  ELSE <<CallRec("NPad", "GetRevision", aruid, revision)>>))

\* Lines 1032-1046: supported_style_set is value-initialised and pushed as the
\* delegate left it.
GetSupportedNpadStyleSet ==
    /\ hid_request = NoRequest
    /\ HandlerOf(101) = "GetSupportedNpadStyleSet"
    /\ \E aruid \in Aruids, supported_style_set \in {0} \cup NpadStyleSets, r \in RmResults :
        Serve(Request(101, aruid, FALSE, NoArg),
              Response(r, <<supported_style_set>>, 0, <<>>),
              Delegate("GetNpad", "NPad", "GetSupportedNpadStyleSet",
                       [aruid |-> aruid, supported_style_set |-> supported_style_set], r))

\* NpadIdType values clients send: Player1 and one that is no npad id.
NpadIdInputs == {0, 9}

\* hid_util's IsNpadIdValid: Player1..Player8, Other (0x10), Handheld (0x20).
IsNpadIdValid(npad_id) == npad_id \in (0..7) \cup {16, 32}

ResultInvalidNpadId == "ResultInvalidNpadId"

\* What may follow ASSERT_MSG(cond, ...): a failed assertion is logged and,
\* where asserts are fatal, the process dies.
AssertOutcomes(cond) == IF cond THEN {"continues"} ELSE {"continues", "aborts"}

\* Values of NpadJoyHoldType sent: Vertical, Horizontal and one out of range.
NpadJoyHoldTypes == {0, 1, 2}

\* Values of NpadHandheldActivationMode sent: Dual, Single, None and
\* MaxActivationMode.
NpadHandheldActivationModes == {0, 1, 2, 3}

\* Values of NpadJoyDeviceType: Left, Right.
NpadJoyDeviceTypes == {0, 1}

\* Objects a Kernel::KReadableEvent* may point to after a delegate call.
ReadableEvents == {"event", "indeterminate"}

\* Lines 1094-1116: style_set_update_event is an uninitialised pointer the
\* delegate is to set; it is pushed whatever the delegate returned.
AcquireNpadStyleSetUpdateEventHandle ==
    /\ hid_request = NoRequest
    /\ HandlerOf(106) = "AcquireNpadStyleSetUpdateEventHandle"
    /\ \E npad_id \in NpadIdInputs, aruid \in Aruids, unknown \in ParamValues,
          r \in RmResults, ev \in ReadableEvents :
        /\ (r = ResultSuccess => ev = "event")
        /\ Serve(Request(106, aruid, FALSE, [npad_id |-> npad_id, unknown |-> unknown]),
                 Response(r, <<>>, 1, <<>>),
                 Delegate("GetNpad", "NPad", "AcquireNpadStyleSetUpdateEventHandle",
                          [aruid |-> aruid, npad_id |-> npad_id], r)
                 \o <<CallRec("rb", "PushCopyObjects", ev, NoResult)>>)

\* Lines 1118-1137: what the delegate returns is discarded.
DisconnectNpad ==
    /\ hid_request = NoRequest
    /\ HandlerOf(107) = "DisconnectNpad"
    /\ \E npad_id \in NpadIdInputs, aruid \in Aruids :
        Serve(Request(107, aruid, FALSE, npad_id),
              Response(ResultSuccess, <<>>, 0, <<>>),
              Delegate("GetNpad", "NPad", "DisconnectNpad",
                       [aruid |-> aruid, npad_id |-> npad_id], NoResult))

\* Lines 1139-1152: pattern starts as {0, 0, 0, 0} and its raw value is pushed
\* as the delegate left it.
GetPlayerLedPattern ==
    /\ hid_request = NoRequest
    /\ HandlerOf(108) = "GetPlayerLedPattern"
    /\ \E npad_id \in NpadIdInputs, r \in RmResults, raw \in {0, 1} :
        Serve(Request(108, NoArg, FALSE, npad_id),
              Response(r, <<raw>>, 0, <<>>),
              Delegate("GetNpad", "NPad", "GetLedPattern",
                       [npad_id |-> npad_id, pattern |-> raw], r))

\* Lines 1177-1195: a hold type that is neither Horizontal nor Vertical fails
\* the assertion; the delegate is called with it all the same.
SetNpadJoyHoldType ==
    /\ hid_request = NoRequest
    /\ HandlerOf(120) = "SetNpadJoyHoldType"
    /\ \E aruid \in Aruids, hold_type \in NpadJoyHoldTypes, r \in RmResults :
        \E outcome \in AssertOutcomes(hold_type \in {0, 1}) :
            IF outcome = "aborts"
            THEN Serve(Request(120, aruid, FALSE, hold_type), NoResponse, <<>>)
            ELSE Serve(Request(120, aruid, FALSE, hold_type),
                       Response(r, <<>>, 0, <<>>),
                       Delegate("GetNpad", "NPad", "SetNpadJoyHoldType",
                                [aruid |-> aruid, hold_type |-> hold_type], r))

\* Lines 1197-1210: hold_type is value-initialised and pushed as the delegate
\* left it.
GetNpadJoyHoldType ==
    /\ hid_request = NoRequest
    /\ HandlerOf(121) = "GetNpadJoyHoldType"
    /\ \E aruid \in Aruids, hold_type \in {0, 1}, r \in RmResults :
        Serve(Request(121, aruid, FALSE, NoArg),
              Response(r, <<hold_type>>, 0, <<>>),
              Delegate("GetNpad", "NPad", "GetNpadJoyHoldType",
                       [aruid |-> aruid, hold_type |-> hold_type], r))

\* controller->SetNpadMode(aruid, new_npad_id, npad_id, device_type, mode):
\* new_npad_id is what the delegate leaves in the out parameter, reassigned
\* what it returns.
SetNpadMode(aruid, new_npad_id, npad_id, npad_joy_device_type, mode, reassigned) ==
    Delegate("GetNpad", "NPad", "SetNpadMode",
             [aruid |-> aruid, new_npad_id |-> new_npad_id, npad_id |-> npad_id,
              npad_joy_device_type |-> npad_joy_device_type, mode |-> mode],
             BoolRet(reassigned))

\* Lines 1212-1233: device type Left, mode Single; the result is discarded.
SetNpadJoyAssignmentModeSingleByDefault ==
    /\ hid_request = NoRequest
    /\ HandlerOf(122) = "SetNpadJoyAssignmentModeSingleByDefault"
    /\ \E npad_id \in NpadIdInputs, aruid \in Aruids, reassigned \in BOOLEAN :
        Serve(Request(122, aruid, FALSE, npad_id),
              Response(ResultSuccess, <<>>, 0, <<>>),
              SetNpadMode(aruid, 0, npad_id, 0, "Single", reassigned))

\* Lines 1235-1258.
SetNpadJoyAssignmentModeSingle ==
    /\ hid_request = NoRequest
    /\ HandlerOf(123) = "SetNpadJoyAssignmentModeSingle"
    /\ \E npad_id \in NpadIdInputs, aruid \in Aruids,
          npad_joy_device_type \in NpadJoyDeviceTypes, reassigned \in BOOLEAN :
        Serve(Request(123, aruid, FALSE,
                      [npad_id |-> npad_id, npad_joy_device_type |-> npad_joy_device_type]),
              Response(ResultSuccess, <<>>, 0, <<>>),
              SetNpadMode(aruid, 0, npad_id, npad_joy_device_type, "Single", reassigned))

\* Lines 1260-1281: device type {} (Left), mode Dual.
SetNpadJoyAssignmentModeDual ==
    /\ hid_request = NoRequest
    /\ HandlerOf(124) = "SetNpadJoyAssignmentModeDual"
    /\ \E npad_id \in NpadIdInputs, aruid \in Aruids, reassigned \in BOOLEAN :
        Serve(Request(124, aruid, FALSE, npad_id),
              Response(ResultSuccess, <<>>, 0, <<>>),
              SetNpadMode(aruid, 0, npad_id, 0, "Dual", reassigned))

\* Lines 1283-1298.
MergeSingleJoyAsDualJoy ==
    /\ hid_request = NoRequest
    /\ HandlerOf(125) = "MergeSingleJoyAsDualJoy"
    /\ \E npad_id_1 \in NpadIdInputs, npad_id_2 \in NpadIdInputs, aruid \in Aruids,
          r \in RmResults :
        Serve(Request(125, aruid, FALSE, <<npad_id_1, npad_id_2>>),
              Response(r, <<>>, 0, <<>>),
              Delegate("GetNpad", "NPad", "MergeSingleJoyAsDualJoy",
                       [aruid |-> aruid, npad_id_1 |-> npad_id_1, npad_id_2 |-> npad_id_2],
                       r))

\* Lines 1300-1310.
StartLrAssignmentMode ==
    /\ hid_request = NoRequest
    /\ HandlerOf(126) = "StartLrAssignmentMode"
    /\ \E aruid \in Aruids :
        Serve(Request(126, aruid, FALSE, NoArg),
              Response(ResultSuccess, <<>>, 0, <<>>),
              Delegate("GetNpad", "NPad", "StartLrAssignmentMode", aruid, NoResult))

\* Lines 1312-1322.
StopLrAssignmentMode ==
    /\ hid_request = NoRequest
    /\ HandlerOf(127) = "StopLrAssignmentMode"
    /\ \E aruid \in Aruids :
        Serve(Request(127, aruid, FALSE, NoArg),
              Response(ResultSuccess, <<>>, 0, <<>>),
              Delegate("GetNpad", "NPad", "StopLrAssignmentMode", aruid, NoResult))

\* Lines 1324-1346: a mode from MaxActivationMode on fails the assertion and
\* is answered with success without a delegate call.
SetNpadHandheldActivationMode ==
    /\ hid_request = NoRequest
    /\ HandlerOf(128) = "SetNpadHandheldActivationMode"
    /\ \E aruid \in Aruids, activation_mode \in NpadHandheldActivationModes, r \in RmResults :
        IF activation_mode >= 3
        THEN /\ r = ResultSuccess
             /\ \E outcome \in AssertOutcomes(FALSE) :
                   Serve(Request(128, aruid, FALSE, activation_mode),
                         IF outcome = "aborts"
                         THEN NoResponse
                         ELSE Response(ResultSuccess, <<>>, 0, <<>>),
                         <<>>)
        ELSE Serve(Request(128, aruid, FALSE, activation_mode),
                   Response(r, <<>>, 0, <<>>),
                   Delegate("GetNpad", "NPad", "SetNpadHandheldActivationMode",
                            [aruid |-> aruid, activation_mode |-> activation_mode], r))

\* Lines 1348-1362: activation_mode is value-initialised and pushed as the
\* delegate left it.
GetNpadHandheldActivationMode ==
    /\ hid_request = NoRequest
    /\ HandlerOf(129) = "GetNpadHandheldActivationMode"
    /\ \E aruid \in Aruids, activation_mode \in {0, 1}, r \in RmResults :
        Serve(Request(129, aruid, FALSE, NoArg),
              Response(r, <<activation_mode>>, 0, <<>>),
              Delegate("GetNpad", "NPad", "GetNpadHandheldActivationMode",
                       [aruid |-> aruid, activation_mode |-> activation_mode], r))

\* Lines 1364-1378.
SwapNpadAssignment ==
    /\ hid_request = NoRequest
    /\ HandlerOf(130) = "SwapNpadAssignment"
    /\ \E npad_id_1 \in NpadIdInputs, npad_id_2 \in NpadIdInputs, aruid \in Aruids,
          r \in RmResults :
        Serve(Request(130, aruid, FALSE, <<npad_id_1, npad_id_2>>),
              Response(r, <<>>, 0, <<>>),
              Delegate("GetNpad", "NPad", "SwapNpadAssignment",
                       [aruid |-> aruid, npad_id_1 |-> npad_id_1, npad_id_2 |-> npad_id_2],
                       r))

\* Lines 1380-1408: an npad id that is not valid is answered with
\* ResultInvalidNpadId alone, without a delegate call.
IsUnintendedHomeButtonInputProtectionEnabled ==
    /\ hid_request = NoRequest
    /\ HandlerOf(131) = "IsUnintendedHomeButtonInputProtectionEnabled"
    /\ \E npad_id \in NpadIdInputs, aruid \in Aruids, r \in RmResults, is_enabled \in Flags :
        IF ~IsNpadIdValid(npad_id)
        THEN /\ r = ResultSuccess /\ ~is_enabled
             /\ Serve(Request(131, aruid, FALSE, npad_id),
                      Response(ResultInvalidNpadId, <<>>, 0, <<>>), <<>>)
        ELSE Serve(Request(131, aruid, FALSE, npad_id),
                   Response(r, <<is_enabled>>, 0, <<>>),
                   Delegate("GetNpad", "NPad", "IsUnintendedHomeButtonInputProtectionEnabled",
                            [is_enabled |-> is_enabled, aruid |-> aruid, npad_id |-> npad_id],
                            r))

\* Lines 1410-1437.
EnableUnintendedHomeButtonInputProtection ==
    /\ hid_request = NoRequest
    /\ HandlerOf(132) = "EnableUnintendedHomeButtonInputProtection"
    /\ \E npad_id \in NpadIdInputs, aruid \in Aruids, r \in RmResults, is_enabled \in BOOLEAN :
        IF ~IsNpadIdValid(npad_id)
        THEN /\ r = ResultSuccess
             /\ Serve(Request(132, aruid, FALSE, [npad_id |-> npad_id, value |-> is_enabled]),
                      Response(ResultInvalidNpadId, <<>>, 0, <<>>), <<>>)
        ELSE Serve(Request(132, aruid, FALSE, [npad_id |-> npad_id, value |-> is_enabled]),
                   Response(r, <<>>, 0, <<>>),
                   Delegate("GetNpad", "NPad", "EnableUnintendedHomeButtonInputProtection",
                            [aruid |-> aruid, npad_id |-> npad_id, is_enabled |-> is_enabled],
                            r))

\* Lines 1439-1465: the answer is success with what SetNpadMode returned and
\* the new npad id it left.
SetNpadJoyAssignmentModeSingleWithDestination ==
    /\ hid_request = NoRequest
    /\ HandlerOf(133) = "SetNpadJoyAssignmentModeSingleWithDestination"
    /\ \E npad_id \in NpadIdInputs, aruid \in Aruids,
          npad_joy_device_type \in NpadJoyDeviceTypes, is_reassigned \in BOOLEAN,
          new_npad_id \in {0, 1} :
        Serve(Request(133, aruid, FALSE,
                      [npad_id |-> npad_id, npad_joy_device_type |-> npad_joy_device_type]),
              Response(ResultSuccess, <<is_reassigned, new_npad_id>>, 0, <<>>),
              SetNpadMode(aruid, new_npad_id, npad_id, npad_joy_device_type, "Single",
                          is_reassigned))

\* Lines 1467-1486.
SetNpadAnalogStickUseCenterClamp ==
    /\ hid_request = NoRequest
    /\ HandlerOf(134) = "SetNpadAnalogStickUseCenterClamp"
    /\ \E aruid \in Aruids, use_center_clamp \in BOOLEAN :
        Serve(Request(134, aruid, FALSE, use_center_clamp),
              Response(ResultSuccess, <<>>, 0, <<>>),
              Delegate("GetNpad", "NPad", "SetNpadAnalogStickUseCenterClamp",
                       [aruid |-> aruid, use_center_clamp |-> use_center_clamp], NoResult))

\* Lines 1488-1508.
SetNpadCaptureButtonAssignment ==
    /\ hid_request = NoRequest
    /\ HandlerOf(135) = "SetNpadCaptureButtonAssignment"
    /\ \E aruid \in Aruids, npad_styleset \in NpadStyleSets, button \in ParamValues,
          r \in RmResults :
        Serve(Request(135, aruid, FALSE, [npad_styleset |-> npad_styleset, button |-> button]),
              Response(r, <<>>, 0, <<>>),
              Delegate("GetNpad", "NPad", "SetNpadCaptureButtonAssignment",
                       [aruid |-> aruid, npad_styleset |-> npad_styleset, button |-> button],
                       r))

\* Lines 1510-1521.
ClearNpadCaptureButtonAssignment ==
    /\ hid_request = NoRequest
    /\ HandlerOf(136) = "ClearNpadCaptureButtonAssignment"
    /\ \E aruid \in Aruids, r \in RmResults :
        Serve(Request(136, aruid, FALSE, NoArg),
              Response(r, <<>>, 0, <<>>),
              Delegate("GetNpad", "NPad", "ClearNpadCaptureButtonAssignment", aruid, r))

\* Core::HID::VibrationDeviceInfo values a delegate leaves: none, a linear
\* resonant actuator on the left.
VibrationDeviceInfos == {[type |-> 0, position |-> 0], [type |-> 1, position |-> 1]}

\* Lines 1523-1534: the call is made on the resource manager itself;
\* vibration_device_info is value-initialised and pushed raw as it is left.
GetVibrationDeviceInfo ==
    /\ hid_request = NoRequest
    /\ HandlerOf(200) = "GetVibrationDeviceInfo"
    /\ \E h \in HandlerHandles, r \in RmResults, vibration_device_info \in VibrationDeviceInfos :
        Serve(Request(200, NoArg, FALSE, [handle |-> h, value |-> NoArg]),
              Response(r, ToBytes(vibration_device_info.type, 4)
                          \o ToBytes(vibration_device_info.position, 4), 0, <<>>),
              GetResourceManager
              \o <<CallRec("ResourceManager", "GetVibrationDeviceInfo",
                           [vibration_device_info |-> vibration_device_info, handle |-> h],
                           r)>>)

\* Lines 1536-1560: what the resource manager returns is discarded.
SendVibrationValue ==
    /\ hid_request = NoRequest
    /\ HandlerOf(201) = "SendVibrationValue"
    /\ \E h \in HandlerHandles, aruid \in Aruids, vibration_value \in VibrationValues :
        Serve(Request(201, aruid, FALSE, [handle |-> h, value |-> vibration_value]),
              Response(ResultSuccess, <<>>, 0, <<>>),
              GetResourceManager
              \o <<CallRec("ResourceManager", "SendVibrationValue",
                           [aruid |-> aruid, handle |-> h, value |-> vibration_value],
                           NoResult)>>)

\* GetResourceManager()->GetNpad()->GetVibrationHandler()->fn(arg), which
\* returned r.
VibrationHandlerCall(fn, arg, r) ==
    GetResourceManager
    \o <<CallRec("ResourceManager", "GetNpad", NoArg, NoResult),
         CallRec("NPad", "GetVibrationHandler", NoArg, NoResult),
         CallRec("NpadVibration", fn, arg, r)>>

\* x > 0.0f for the f32 with bit pattern bits: positive sign, not zero, no NaN.
GreaterThanZero(bits) == bits > 0 /\ bits <= 2139095040

\* Lines 1611-1623: the volume set is 1.0f or 0.0f.
PermitVibration ==
    /\ hid_request = NoRequest
    /\ HandlerOf(204) = "PermitVibration"
    /\ \E can_vibrate \in BOOLEAN, r \in RmResults :
        Serve(Request(204, NoArg, FALSE, can_vibrate),
              Response(r, <<>>, 0, <<>>),
              VibrationHandlerCall("SetVibrationMasterVolume",
                                   IF can_vibrate THEN 1065353216 ELSE 0, r))

\* Lines 1625-1636: master_volume is value-initialised; whether it is above
\* zero as the delegate left it is pushed.
IsVibrationPermitted ==
    /\ hid_request = NoRequest
    /\ HandlerOf(205) = "IsVibrationPermitted"
    /\ \E master_volume \in {0, 1065353216}, r \in RmResults :
        Serve(Request(205, NoArg, FALSE, NoArg),
              Response(r, <<GreaterThanZero(master_volume)>>, 0, <<>>),
              VibrationHandlerCall("GetVibrationMasterVolume", master_volume, r))

\* Lines 1710-1748: as GetActualVibrationValue, for the GC device; the command
\* is value-initialised (Stop) and Stop again when result is an error.
GetActualVibrationGcErmCommand ==
    /\ hid_request = NoRequest
    /\ HandlerOf(208) = "GetActualVibrationGcErmCommand"
    /\ \E aruid \in Aruids, h \in HandlerHandles, ar \in RmResults, active \in BOOLEAN,
          present \in BOOLEAN, r \in RmResults, out \in GcErmCommands :
        LET dev == VibrationDeviceCall(aruid, h, "GetGcVibrationDevice",
                                       "NpadGcVibrationDevice",
                                       "GetActualVibrationGcErmCommand", out, ar, active,
                                       present, r)
            gc_erm_command == IF IsError(dev.result) THEN 0
                              ELSE IF dev.device THEN out ELSE 0
        IN Serve(Request(208, aruid, FALSE, [handle |-> h, value |-> NoArg]),
                 Response(ResultSuccess, <<gc_erm_command>>, 0, <<>>), dev.calls)

\* Lines 1750-1762.
BeginPermitVibrationSession ==
    /\ hid_request = NoRequest
    /\ HandlerOf(209) = "BeginPermitVibrationSession"
    /\ \E aruid \in Aruids, r \in RmResults :
        Serve(Request(209, aruid, FALSE, NoArg),
              Response(r, <<>>, 0, <<>>),
              VibrationHandlerCall("BeginPermitVibrationSession", aruid, r))

\* Lines 1764-1772.
EndPermitVibrationSession ==
    /\ hid_request = NoRequest
    /\ HandlerOf(210) = "EndPermitVibrationSession"
    /\ \E r \in RmResults :
        Serve(Request(210, NoArg, FALSE, NoArg),
              Response(r, <<>>, 0, <<>>),
              VibrationHandlerCall("EndPermitVibrationSession", NoArg, r))

\* Lines 1869-1887: parameters are popped and logged only.
StartConsoleSixAxisSensor ==
    /\ hid_request = NoRequest
    /\ HandlerOf(301) = "StartConsoleSixAxisSensor"
    /\ \E aruid \in Aruids, p \in ParamValues :
        Serve(Request(301, aruid, FALSE, p), Response(ResultSuccess, <<>>, 0, <<>>), <<>>)

\* Lines 1889-1907: parameters are popped and logged only.
StopConsoleSixAxisSensor ==
    /\ hid_request = NoRequest
    /\ HandlerOf(302) = "StopConsoleSixAxisSensor"
    /\ \E aruid \in Aruids, p \in ParamValues :
        Serve(Request(302, aruid, FALSE, p), Response(ResultSuccess, <<>>, 0, <<>>), <<>>)

\* Lines 1930-1939: parameters are popped and logged only.
StartSevenSixAxisSensor ==
    /\ hid_request = NoRequest
    /\ HandlerOf(304) = "StartSevenSixAxisSensor"
    /\ \E aruid \in Aruids :
        Serve(Request(304, aruid, FALSE, NoArg), Response(ResultSuccess, <<>>, 0, <<>>), <<>>)

\* Lines 1941-1950: parameters are popped and logged only.
StopSevenSixAxisSensor ==
    /\ hid_request = NoRequest
    /\ HandlerOf(305) = "StopSevenSixAxisSensor"
    /\ \E aruid \in Aruids :
        Serve(Request(305, aruid, FALSE, NoArg), Response(ResultSuccess, <<>>, 0, <<>>), <<>>)

ResultUnknown == "ResultUnknown"

\* A transfer memory object behind a copy handle: none, or one of a size.
NoObject == -1

\* ctx.GetObjectFromHandle<Kernel::KTransferMemory>(handle), which found the
\* object mem.
GetObjectFromHandle(index, mem) ==
    CallRec("ctx", "GetObjectFromHandle", index, IF mem = NoObject THEN "null" ELSE "object")

\* Lines 1952-1997: the sizes sent and the sizes of the two transfer memories
\* are asserted; a handle without object is answered with ResultUnknown;
\* otherwise both devices are activated, each through GetResourceManager(),
\* and the transfer memory address is set. What the delegates return is
\* discarded.
InitializeSevenSixAxisSensor ==
    /\ hid_request = NoRequest
    /\ HandlerOf(306) = "InitializeSevenSixAxisSensor"
    /\ \E aruid \in Aruids, t_mem_1_size \in {4096, 0}, t_mem_2_size \in {520192},
          t_mem_1 \in {NoObject, 4096, 0}, t_mem_2 \in {NoObject, 520192}, fatal \in BOOLEAN :
        LET req == Request(306, aruid, FALSE,
                           [t_mem_1_size |-> t_mem_1_size, t_mem_2_size |-> t_mem_2_size,
                            t_mem_1 |-> t_mem_1, t_mem_2 |-> t_mem_2])
            sizes_ok == t_mem_1_size = 4096 /\ t_mem_2_size = 520192
            objects_ok == t_mem_1 = 4096 /\ t_mem_2 = 520192
            fetch1 == <<GetObjectFromHandle(0, t_mem_1)>>
            fetch2 == fetch1 \o <<GetObjectFromHandle(1, t_mem_2)>>
        IN IF "aborts" \in AssertOutcomes(sizes_ok) /\ fatal
           THEN Serve(req, NoResponse, <<>>)
           ELSE IF t_mem_1 = NoObject
           THEN Serve(req, Response(ResultUnknown, <<>>, 0, <<>>), fetch1)
           ELSE IF t_mem_2 = NoObject
           THEN Serve(req, Response(ResultUnknown, <<>>, 0, <<>>), fetch2)
           ELSE IF "aborts" \in AssertOutcomes(objects_ok) /\ fatal
           THEN Serve(req, NoResponse, fetch2)
           ELSE Serve(req, Response(ResultSuccess, <<>>, 0, <<>>),
                      fetch2
                      \o Delegate("GetConsoleSixAxis", "ConsoleSixAxis", "Activate()", NoArg,
                                  NoResult)
                      \o Delegate("GetSevenSixAxis", "SevenSixAxis", "Activate()", NoArg,
                                  NoResult)
                      \o Delegate("GetSevenSixAxis", "SevenSixAxis", "SetTransferMemoryAddress",
                                  "t_mem_1", NoResult))

\* Lines 1999-2008: parameters are popped and logged only.
FinalizeSevenSixAxisSensor ==
    /\ hid_request = NoRequest
    /\ HandlerOf(307) = "FinalizeSevenSixAxisSensor"
    /\ \E aruid \in Aruids :
        Serve(Request(307, aruid, FALSE, NoArg), Response(ResultSuccess, <<>>, 0, <<>>), <<>>)

\* Lines 2010-2020.
ResetSevenSixAxisSensorTimestamp ==
    /\ hid_request = NoRequest
    /\ HandlerOf(310) = "ResetSevenSixAxisSensorTimestamp"
    /\ \E aruid \in Aruids :
        Serve(Request(310, aruid, FALSE, NoArg),
              Response(ResultSuccess, <<>>, 0, <<>>),
              Delegate("GetSevenSixAxis", "SevenSixAxis", "ResetTimestamp", NoArg, NoResult))

\* Lines 2022-2030: always false.
IsUsbFullKeyControllerEnabled ==
    /\ hid_request = NoRequest
    /\ HandlerOf(400) = "IsUsbFullKeyControllerEnabled"
    /\ Serve(Request(400, NoArg, FALSE, NoArg), Response(ResultSuccess, <<FALSE>>, 0, <<>>),
             <<>>)

\* Palma::PalmaConnectionHandle values (their npad_id) clients send.
PalmaConnectionHandles == ConfiguredNpadIds

\* What a PalmaConnectionHandle local holds after the delegate call: the npad
\* id the delegate wrote, or what the uninitialised local held (171).
PalmaHandleOut == {0, 171}

\* GetResourceManager()->GetPalma()->fn(arg), which returned r.
PalmaCall(fn, arg, r) == Delegate("GetPalma", "Palma", fn, arg, r)

\* Lines 2032-2053: handle is an uninitialised local handed to the delegate as
\* an out parameter and pushed raw whatever the delegate returned.
GetPalmaConnectionHandle ==
    /\ hid_request = NoRequest
    /\ HandlerOf(500) = "GetPalmaConnectionHandle"
    /\ \E npad_id \in NpadIdInputs, aruid \in Aruids, r \in RmResults, out \in PalmaHandleOut :
        /\ (r = ResultSuccess => out = 0)
        /\ Serve(Request(500, aruid, FALSE, npad_id),
                 Response(r, ToBytes(out, 8), 0, <<>>),
                 PalmaCall("GetPalmaConnectionHandle", [npad_id |-> npad_id, handle |-> out],
                           r))

\* Lines 2055-2066.
InitializePalma ==
    /\ hid_request = NoRequest
    /\ HandlerOf(501) = "InitializePalma"
    /\ \E connection_handle \in PalmaConnectionHandles, r \in RmResults :
        Serve(Request(501, NoArg, FALSE, [handle |-> connection_handle]),
              Response(r, <<>>, 0, <<>>),
              PalmaCall("InitializePalma", connection_handle, r))

\* Lines 2068-2079: the event the delegate returns is pushed as a copy object.
AcquirePalmaOperationCompleteEvent ==
    /\ hid_request = NoRequest
    /\ HandlerOf(502) = "AcquirePalmaOperationCompleteEvent"
    /\ \E connection_handle \in PalmaConnectionHandles :
        Serve(Request(502, NoArg, FALSE, [handle |-> connection_handle]),
              Response(ResultSuccess, <<>>, 1, <<>>),
              PalmaCall("AcquirePalmaOperationCompleteEvent", connection_handle, "event")
              \o <<CallRec("rb", "PushCopyObjects", "event", NoResult)>>)

\* Lines 2103-2116.
PlayPalmaActivity ==
    /\ hid_request = NoRequest
    /\ HandlerOf(504) = "PlayPalmaActivity"
    /\ \E connection_handle \in PalmaConnectionHandles, palma_activity \in ParamValues,
          r \in RmResults :
        Serve(Request(504, NoArg, FALSE,
                      [handle |-> connection_handle, value |-> palma_activity]),
              Response(r, <<>>, 0, <<>>),
              PalmaCall("PlayPalmaActivity",
                        [handle |-> connection_handle, palma_activity |-> palma_activity], r))

\* Lines 2118-2131.
SetPalmaFrModeType ==
    /\ hid_request = NoRequest
    /\ HandlerOf(505) = "SetPalmaFrModeType"
    /\ \E connection_handle \in PalmaConnectionHandles, fr_mode \in ParamValues,
          r \in RmResults :
        Serve(Request(505, NoArg, FALSE, [handle |-> connection_handle, value |-> fr_mode]),
              Response(r, <<>>, 0, <<>>),
              PalmaCall("SetPalmaFrModeType",
                        [handle |-> connection_handle, fr_mode |-> fr_mode], r))

\* Lines 2133-2144.
ReadPalmaStep ==
    /\ hid_request = NoRequest
    /\ HandlerOf(506) = "ReadPalmaStep"
    /\ \E connection_handle \in PalmaConnectionHandles, r \in RmResults :
        Serve(Request(506, NoArg, FALSE, [handle |-> connection_handle]),
              Response(r, <<>>, 0, <<>>),
              PalmaCall("ReadPalmaStep", connection_handle, r))

\* Lines 2146-2166.
EnablePalmaStep ==
    /\ hid_request = NoRequest
    /\ HandlerOf(507) = "EnablePalmaStep"
    /\ \E connection_handle \in PalmaConnectionHandles, is_enabled \in BOOLEAN,
          r \in RmResults :
        Serve(Request(507, NoArg, FALSE, [handle |-> connection_handle, value |-> is_enabled]),
              Response(r, <<>>, 0, <<>>),
              PalmaCall("EnablePalmaStep",
                        [handle |-> connection_handle, is_enabled |-> is_enabled], r))

\* Lines 2168-2179.
ResetPalmaStep ==
    /\ hid_request = NoRequest
    /\ HandlerOf(508) = "ResetPalmaStep"
    /\ \E connection_handle \in PalmaConnectionHandles, r \in RmResults :
        Serve(Request(508, NoArg, FALSE, [handle |-> connection_handle]),
              Response(r, <<>>, 0, <<>>),
              PalmaCall("ResetPalmaStep", connection_handle, r))

\* Lines 2181-2186: nothing is popped, nothing is called.
ReadPalmaApplicationSection ==
    /\ hid_request = NoRequest
    /\ HandlerOf(509) = "ReadPalmaApplicationSection"
    /\ Serve(Request(509, NoArg, FALSE, NoArg), Response(ResultSuccess, <<>>, 0, <<>>), <<>>)

\* Lines 2188-2193: nothing is popped, nothing is called.
WritePalmaApplicationSection ==
    /\ hid_request = NoRequest
    /\ HandlerOf(510) = "WritePalmaApplicationSection"
    /\ Serve(Request(510, NoArg, FALSE, NoArg), Response(ResultSuccess, <<>>, 0, <<>>), <<>>)

\* Lines 2195-2205: what the delegate returns is discarded.
ReadPalmaUniqueCode ==
    /\ hid_request = NoRequest
    /\ HandlerOf(511) = "ReadPalmaUniqueCode"
    /\ \E connection_handle \in PalmaConnectionHandles :
        Serve(Request(511, NoArg, FALSE, [handle |-> connection_handle]),
              Response(ResultSuccess, <<>>, 0, <<>>),
              PalmaCall("ReadPalmaUniqueCode", connection_handle, NoResult))

\* Lines 2207-2217: what the delegate returns is discarded.
SetPalmaUniqueCodeInvalid ==
    /\ hid_request = NoRequest
    /\ HandlerOf(512) = "SetPalmaUniqueCodeInvalid"
    /\ \E connection_handle \in PalmaConnectionHandles :
        Serve(Request(512, NoArg, FALSE, [handle |-> connection_handle]),
              Response(ResultSuccess, <<>>, 0, <<>>),
              PalmaCall("SetPalmaUniqueCodeInvalid", connection_handle, NoResult))

\* Lines 2219-2224: nothing is popped, nothing is called.
WritePalmaActivityEntry ==
    /\ hid_request = NoRequest
    /\ HandlerOf(513) = "WritePalmaActivityEntry"
    /\ Serve(Request(513, NoArg, FALSE, NoArg), Response(ResultSuccess, <<>>, 0, <<>>), <<>>)

\* Lines 2226-2240: the input buffer is read and not used; what the delegate
\* returns is discarded.
WritePalmaRgbLedPatternEntry ==
    /\ hid_request = NoRequest
    /\ HandlerOf(514) = "WritePalmaRgbLedPatternEntry"
    /\ \E connection_handle \in PalmaConnectionHandles, unknown \in ParamValues,
          buffer \in TrailingBytes :
        Serve(Request(514, NoArg, FALSE,
                      [handle |-> connection_handle, value |-> unknown,
                       buffers |-> <<buffer>>]),
              Response(ResultSuccess, <<>>, 0, <<>>),
              <<CallRec("ctx", "ReadBuffer", NoArg, NoResult)>>
              \o PalmaCall("WritePalmaRgbLedPatternEntry",
                           [handle |-> connection_handle, unknown |-> unknown], NoResult))

\* Lines 2242-2274: the size sent and the size of the transfer memory are
\* asserted to be 0x3000; a handle without object is answered with
\* ResultUnknown; the delegate is given the size that was sent.
WritePalmaWaveEntry ==
    /\ hid_request = NoRequest
    /\ HandlerOf(515) = "WritePalmaWaveEntry"
    /\ \E connection_handle \in PalmaConnectionHandles, wave_set \in ParamValues,
          t_mem_size \in {12288, 0}, t_mem \in {NoObject, 12288, 0}, fatal \in BOOLEAN :
        LET req == Request(515, NoArg, FALSE,
                           [handle |-> connection_handle, wave_set |-> wave_set,
                            t_mem_size |-> t_mem_size, t_mem |-> t_mem])
            fetch == <<GetObjectFromHandle(0, t_mem)>>
        IN IF "aborts" \in AssertOutcomes(t_mem_size = 12288) /\ fatal
           THEN Serve(req, NoResponse, <<>>)
           ELSE IF t_mem = NoObject
           THEN Serve(req, Response(ResultUnknown, <<>>, 0, <<>>), fetch)
           ELSE IF "aborts" \in AssertOutcomes(t_mem = 12288) /\ fatal
           THEN Serve(req, NoResponse, fetch)
           ELSE Serve(req, Response(ResultSuccess, <<>>, 0, <<>>),
                      fetch
                      \o PalmaCall("WritePalmaWaveEntry",
                                   [handle |-> connection_handle, wave_set |-> wave_set,
                                    address |-> "t_mem", size |-> t_mem_size], NoResult))

\* Lines 2276-2295: what the delegate returns is discarded.
SetPalmaDataBaseIdentificationVersion ==
    /\ hid_request = NoRequest
    /\ HandlerOf(516) = "SetPalmaDataBaseIdentificationVersion"
    /\ \E connection_handle \in PalmaConnectionHandles, database_id_version \in ParamValues :
        Serve(Request(516, NoArg, FALSE,
                      [handle |-> connection_handle, value |-> database_id_version]),
              Response(ResultSuccess, <<>>, 0, <<>>),
              PalmaCall("SetPalmaDataBaseIdentificationVersion",
                        [handle |-> connection_handle,
                         database_id_version |-> database_id_version], NoResult))

\* Lines 2297-2307: what the delegate returns is discarded.
GetPalmaDataBaseIdentificationVersion ==
    /\ hid_request = NoRequest
    /\ HandlerOf(517) = "GetPalmaDataBaseIdentificationVersion"
    /\ \E connection_handle \in PalmaConnectionHandles :
        Serve(Request(517, NoArg, FALSE, [handle |-> connection_handle]),
              Response(ResultSuccess, <<>>, 0, <<>>),
              PalmaCall("GetPalmaDataBaseIdentificationVersion", connection_handle, NoResult))

\* Lines 2309-2314: nothing is popped, nothing is called.
SuspendPalmaFeature ==
    /\ hid_request = NoRequest
    /\ HandlerOf(518) = "SuspendPalmaFeature"
    /\ Serve(Request(518, NoArg, FALSE, NoArg), Response(ResultSuccess, <<>>, 0, <<>>), <<>>)

\* Lines 2316-2327.
GetPalmaOperationResult ==
    /\ hid_request = NoRequest
    /\ HandlerOf(519) = "GetPalmaOperationResult"
    /\ \E connection_handle \in PalmaConnectionHandles, r \in RmResults :
        Serve(Request(519, NoArg, FALSE, [handle |-> connection_handle]),
              Response(r, <<>>, 0, <<>>),
              PalmaCall("GetPalmaOperationResult", connection_handle, r))

\* Lines 2329-2334: nothing is popped, nothing is called.
ReadPalmaPlayLog ==
    /\ hid_request = NoRequest
    /\ HandlerOf(520) = "ReadPalmaPlayLog"
    /\ Serve(Request(520, NoArg, FALSE, NoArg), Response(ResultSuccess, <<>>, 0, <<>>), <<>>)

\* Lines 2336-2341: nothing is popped, nothing is called.
ResetPalmaPlayLog ==
    /\ hid_request = NoRequest
    /\ HandlerOf(521) = "ResetPalmaPlayLog"
    /\ Serve(Request(521, NoArg, FALSE, NoArg), Response(ResultSuccess, <<>>, 0, <<>>), <<>>)

\* Lines 2343-2362: what the delegate returns is discarded.
SetIsPalmaAllConnectable ==
    /\ hid_request = NoRequest
    /\ HandlerOf(522) = "SetIsPalmaAllConnectable"
    /\ \E aruid \in Aruids, is_palma_all_connectable \in BOOLEAN :
        Serve(Request(522, aruid, FALSE, is_palma_all_connectable),
              Response(ResultSuccess, <<>>, 0, <<>>),
              PalmaCall("SetIsPalmaAllConnectable", is_palma_all_connectable, NoResult))

\* Lines 2364-2369: nothing is popped, nothing is called.
SetIsPalmaPairedConnectable ==
    /\ hid_request = NoRequest
    /\ HandlerOf(523) = "SetIsPalmaPairedConnectable"
    /\ Serve(Request(523, NoArg, FALSE, NoArg), Response(ResultSuccess, <<>>, 0, <<>>), <<>>)

\* Lines 2371-2381: what the delegate returns is discarded.
PairPalma ==
    /\ hid_request = NoRequest
    /\ HandlerOf(524) = "PairPalma"
    /\ \E connection_handle \in PalmaConnectionHandles :
        Serve(Request(524, NoArg, FALSE, [handle |-> connection_handle]),
              Response(ResultSuccess, <<>>, 0, <<>>),
              PalmaCall("PairPalma", connection_handle, NoResult))

\* Lines 2383-2393: what the delegate returns is discarded.
SetPalmaBoostMode ==
    /\ hid_request = NoRequest
    /\ HandlerOf(525) = "SetPalmaBoostMode"
    /\ \E palma_boost_mode \in BOOLEAN :
        Serve(Request(525, NoArg, FALSE, palma_boost_mode),
              Response(ResultSuccess, <<>>, 0, <<>>),
              PalmaCall("SetPalmaBoostMode", palma_boost_mode, NoResult))

\* Lines 2395-2400: nothing is popped, nothing is called.
CancelWritePalmaWaveEntry ==
    /\ hid_request = NoRequest
    /\ HandlerOf(526) = "CancelWritePalmaWaveEntry"
    /\ Serve(Request(526, NoArg, FALSE, NoArg), Response(ResultSuccess, <<>>, 0, <<>>), <<>>)

\* Lines 2402-2407: nothing is popped, nothing is called.
EnablePalmaBoostMode ==
    /\ hid_request = NoRequest
    /\ HandlerOf(527) = "EnablePalmaBoostMode"
    /\ Serve(Request(527, NoArg, FALSE, NoArg), Response(ResultSuccess, <<>>, 0, <<>>), <<>>)

\* Lines 2409-2414: nothing is popped, nothing is called.
GetPalmaBluetoothAddress ==
    /\ hid_request = NoRequest
    /\ HandlerOf(528) = "GetPalmaBluetoothAddress"
    /\ Serve(Request(528, NoArg, FALSE, NoArg), Response(ResultSuccess, <<>>, 0, <<>>), <<>>)

\* Lines 2416-2421: nothing is popped, nothing is called.
SetDisallowedPalmaConnection ==
    /\ hid_request = NoRequest
    /\ HandlerOf(529) = "SetDisallowedPalmaConnection"
    /\ Serve(Request(529, NoArg, FALSE, NoArg), Response(ResultSuccess, <<>>, 0, <<>>), <<>>)

\* Lines 2450-2460: parameters are popped and logged only.
SetTouchScreenConfiguration ==
    /\ hid_request = NoRequest
    /\ HandlerOf(1002) = "SetTouchScreenConfiguration"
    /\ \E aruid \in Aruids, touchscreen_mode \in ParamValues :
        Serve(Request(1002, aruid, FALSE, touchscreen_mode),
              Response(ResultSuccess, <<>>, 0, <<>>), <<>>)

\* Lines 2462-2479: parameters are popped and logged only; always false.
IsFirmwareUpdateNeededForNotification ==
    /\ hid_request = NoRequest
    /\ HandlerOf(1003) = "IsFirmwareUpdateNeededForNotification"
    /\ \E aruid \in Aruids, unknown \in ParamValues :
        Serve(Request(1003, aruid, FALSE, unknown),
              Response(ResultSuccess, <<FALSE>>, 0, <<>>), <<>>)

\* Lines 2481-2494: what the delegate returns is discarded.
SetTouchScreenResolution ==
    /\ hid_request = NoRequest
    /\ HandlerOf(1004) = "SetTouchScreenResolution"
    /\ \E aruid \in Aruids, width \in {1280}, height \in {720, 0} :
        Serve(Request(1004, aruid, FALSE, [width |-> width, height |-> height]),
              Response(ResultSuccess, <<>>, 0, <<>>),
              Delegate("GetTouchScreen", "TouchScreen", "SetTouchscreenDimensions",
                       [width |-> width, height |-> height], NoResult))

\* The session answers one request before it takes the next: the request is
\* dispatched to the handler of its opcode, then the response is returned.
HidNext ==
    \/ Complete
    \/ Unimplemented
    \/ ActivateDebugPad
    \/ ActivateTouchScreen
    \/ ActivateMouse
    \/ ActivateKeyboard
    \/ ActivateGesture
    \/ ActivateConsoleSixAxisSensor
    \/ ActivateSevenSixAxisSensor
    \/ ActivateNpad
    \/ ActivateNpadWithRevision
    \/ AcquireXpadIdEventHandle
    \/ ReleaseXpadIdEventHandle
    \/ ActivateXpad
    \/ ActivateJoyXpad
    \/ GetJoyXpadLifoHandle
    \/ ActivateSixAxisSensor
    \/ DeactivateSixAxisSensor
    \/ GetSixAxisSensorLifoHandle
    \/ ActivateJoySixAxisSensor
    \/ DeactivateJoySixAxisSensor
    \/ GetJoySixAxisSensorLifoHandle
    \/ DeactivateNpad
    \/ SetNpadCommunicationMode
    \/ GetNpadCommunicationMode
    \/ GetXpadIds
    \/ GetJoyXpadIds
    \/ CreateActiveVibrationDeviceList
    \/ CreateAppletResource
    \/ SetSixAxisSensorFusionParameters
    \/ GetSixAxisSensorFusionParameters
    \/ SetSupportedNpadIdType
    \/ SendVibrationValues
    \/ SendVibrationGcErmCommand
    \/ SendVibrationValueInBool
    \/ IsVibrationDeviceMounted
    \/ GetPalmaOperationInfo
    \/ ResetSixAxisSensorFusionParameters
    \/ GetActualVibrationValue
    \/ SendKeyboardLockKeyEvent
    \/ StartSixAxisSensor
    \/ StopSixAxisSensor
    \/ IsSixAxisSensorFusionEnabled
    \/ EnableSixAxisSensorFusion
    \/ SetGyroscopeZeroDriftMode
    \/ GetGyroscopeZeroDriftMode
    \/ ResetGyroscopeZeroDriftMode
    \/ IsSixAxisSensorAtRest
    \/ IsFirmwareUpdateAvailableForSixAxisSensor
    \/ EnableSixAxisSensorUnalteredPassthrough
    \/ IsSixAxisSensorUnalteredPassthroughEnabled
    \/ LoadSixAxisSensorCalibrationParameter
    \/ GetSixAxisSensorIcInformation
    \/ ResetIsSixAxisSensorDeviceNewlyAssigned
    \/ SetSupportedNpadStyleSet
    \/ GetSupportedNpadStyleSet
    \/ AcquireNpadStyleSetUpdateEventHandle
    \/ DisconnectNpad
    \/ GetPlayerLedPattern
    \/ SetNpadJoyHoldType
    \/ GetNpadJoyHoldType
    \/ SetNpadJoyAssignmentModeSingleByDefault
    \/ SetNpadJoyAssignmentModeSingle
    \/ SetNpadJoyAssignmentModeDual
    \/ MergeSingleJoyAsDualJoy
    \/ StartLrAssignmentMode
    \/ StopLrAssignmentMode
    \/ SetNpadHandheldActivationMode
    \/ GetNpadHandheldActivationMode
    \/ SwapNpadAssignment
    \/ IsUnintendedHomeButtonInputProtectionEnabled
    \/ EnableUnintendedHomeButtonInputProtection
    \/ SetNpadJoyAssignmentModeSingleWithDestination
    \/ SetNpadAnalogStickUseCenterClamp
    \/ SetNpadCaptureButtonAssignment
    \/ ClearNpadCaptureButtonAssignment
    \/ GetVibrationDeviceInfo
    \/ SendVibrationValue
    \/ PermitVibration
    \/ IsVibrationPermitted
    \/ GetActualVibrationGcErmCommand
    \/ BeginPermitVibrationSession
    \/ EndPermitVibrationSession
    \/ StartConsoleSixAxisSensor
    \/ StopConsoleSixAxisSensor
    \/ StartSevenSixAxisSensor
    \/ StopSevenSixAxisSensor
    \/ InitializeSevenSixAxisSensor
    \/ FinalizeSevenSixAxisSensor
    \/ ResetSevenSixAxisSensorTimestamp
    \/ IsUsbFullKeyControllerEnabled
    \/ GetPalmaConnectionHandle
    \/ InitializePalma
    \/ AcquirePalmaOperationCompleteEvent
    \/ PlayPalmaActivity
    \/ SetPalmaFrModeType
    \/ ReadPalmaStep
    \/ EnablePalmaStep
    \/ ResetPalmaStep
    \/ ReadPalmaApplicationSection
    \/ WritePalmaApplicationSection
    \/ ReadPalmaUniqueCode
    \/ SetPalmaUniqueCodeInvalid
    \/ WritePalmaActivityEntry
    \/ WritePalmaRgbLedPatternEntry
    \/ WritePalmaWaveEntry
    \/ SetPalmaDataBaseIdentificationVersion
    \/ GetPalmaDataBaseIdentificationVersion
    \/ SuspendPalmaFeature
    \/ GetPalmaOperationResult
    \/ ReadPalmaPlayLog
    \/ ResetPalmaPlayLog
    \/ SetIsPalmaAllConnectable
    \/ SetIsPalmaPairedConnectable
    \/ PairPalma
    \/ SetPalmaBoostMode
    \/ CancelWritePalmaWaveEntry
    \/ EnablePalmaBoostMode
    \/ GetPalmaBluetoothAddress
    \/ SetDisallowedPalmaConnection
    \/ SetTouchScreenConfiguration
    \/ IsFirmwareUpdateNeededForNotification
    \/ SetTouchScreenResolution

SpecHid == Init /\ [][HidNext]_vars

\* One client issues one request after the other, to the service or to an
\* IActiveVibrationDeviceList it has created, and waits for each answer.
LifetimeNext ==
    \/ (sess_pc[SeqThread] = "idle" /\ HidNext)
    \/ (hid_request = NoRequest /\ \E s \in Sessions, h \in SessionHandles : SessCall(SeqThread, s, h))
    \/ SessLock(SeqThread)
    \/ SessActivate(SeqThread)
    \/ SessUnlock(SeqThread)
    \/ SessRespond(SeqThread)

SpecLifetime == Init /\ [][LifetimeNext]_vars

(* ---------------------------------------------------------------------- *)
(* Properties                                                             *)
(* ---------------------------------------------------------------------- *)

Valid(h) == ~IsError(IsVibrationHandleValid(h))

\* Thread t has reached a return statement of ActivateVibrationDeviceImpl and
\* still holds the lock: entry_list/entry_size are the registry it started on.
Returning(t) == pc[t] = "unlock"

RegistryUnchanged ==
    /\ vibration_device_list = entry_list
    /\ list_size = entry_size

\* C1: under any interleaving of ActivateVibrationDevice calls list_size never
\* exceeds the length of vibration_device_list, and the insert at index
\* list_size is always inside the array.
C1_SizeWithinCapacity ==
    /\ list_size <= ListCapacity
    /\ \A t \in Threads : pc[t] = "insert" => list_size \in DOMAIN vibration_device_list

\* A request for a new valid handle met a full registry and was refused.
C1_Witness ==
    \E t \in Threads :
        /\ Returning(t)
        /\ list_size = ListCapacity
        /\ retval[t] = ResultVibrationDeviceIndexOutOfRange

\* C2: no two entries below list_size agree on npad_type, npad_id and
\* device_index.
C2_NoDuplicateHandle ==
    \A i, j \in DOMAIN vibration_device_list :
        (i < j /\ j < list_size) =>
            ~(/\ vibration_device_list[i].npad_type = vibration_device_list[j].npad_type
              /\ vibration_device_list[i].npad_id = vibration_device_list[j].npad_id
              /\ vibration_device_list[i].device_index = vibration_device_list[j].device_index)

\* Two entries that differ in one field only are registered, and a request for
\* one of them has just been answered without a second insert.
C2_Witness ==
    \E t \in Threads :
        /\ Returning(t)
        /\ list_size >= 2
        /\ vibration_device_list[0].npad_type = vibration_device_list[1].npad_type
        /\ vibration_device_list[0].npad_id = vibration_device_list[1].npad_id
        /\ vibration_device_list[0].device_index # vibration_device_list[1].device_index
        /\ Holds(handle[t], entry_list, entry_size)
        /\ RegistryUnchanged

\* C3 (sequential client): when activate(h) for a valid, unregistered h with
\* free capacity and an accepting device is followed by activate(h), both
\* return success and the size is one more than before the first call.
C3_ActivateTwice ==
    (/\ Returning(SeqThread)
     /\ prev_call.fresh
     /\ prev_call.h = handle[SeqThread]
     /\ prev_call.dev \notin DeviceErrors
     /\ result[SeqThread] \notin DeviceErrors)
    => /\ prev_call.ret = ResultSuccess
       /\ retval[SeqThread] = ResultSuccess
       /\ list_size = prev_call.size0 + 1

\* The second of two successive activations of a fresh handle is returning.
C3_Witness ==
    /\ Returning(SeqThread)
    /\ prev_call.fresh
    /\ prev_call.h = handle[SeqThread]
    /\ prev_call.dev = ResultSuccess
    /\ prev_call.size0 >= 1
    /\ list_size = prev_call.size0 + 1

\* C4 (sequential client): on an empty registry the n-th of a run of valid,
\* pairwise distinct, device-accepted activations returns success and leaves
\* size n while n <= capacity; the next one returns
\* ResultVibrationDeviceIndexOutOfRange and the size stays at the capacity.
C4_CapacityBound ==
    (pc[SeqThread] = "push" /\ seq_clean) =>
        LET n == Cardinality(seq_called) IN
            /\ (n <= ListCapacity =>
                    /\ retval[SeqThread] = ResultSuccess
                    /\ list_size = n)
            /\ (n = ListCapacity + 1 =>
                    /\ retval[SeqThread] = ResultVibrationDeviceIndexOutOfRange
                    /\ list_size = ListCapacity)

\* The (capacity+1)-th distinct activation has returned.
C4_Witness ==
    /\ pc[SeqThread] = "push"
    /\ seq_clean
    /\ Cardinality(seq_called) = ListCapacity + 1
    /\ retval[SeqThread] = ResultVibrationDeviceIndexOutOfRange

\* C5: on a full registry, activate of a valid handle that is registered
\* returns success, not ResultVibrationDeviceIndexOutOfRange.
C5_DedupBeforeCapacity ==
    \A t \in Threads :
        (/\ Returning(t)
         /\ entry_size = ListCapacity
         /\ Valid(handle[t])
         /\ Holds(handle[t], entry_list, entry_size))
        => retval[t] = ResultSuccess

\* A registered handle is re-activated on a full registry.
C5_Witness ==
    \E t \in Threads :
        /\ Returning(t)
        /\ entry_size = ListCapacity
        /\ Valid(handle[t])
        /\ Holds(handle[t], entry_list, entry_size)
        /\ retval[t] = ResultSuccess

\* C6: when the validator rejects the handle, activate returns the validator's
\* error, list and size are unchanged and the device's Activate is not called.
C6_InvalidHandleRejected ==
    \A t \in Threads :
        (Returning(t) /\ ~Valid(handle[t]))
        => /\ retval[t] = IsVibrationHandleValid(handle[t])
           /\ RegistryUnchanged
           /\ result[t] = NoResult

\* An invalid handle is rejected on a full registry.
C6_Witness ==
    \E t \in Threads :
        /\ Returning(t)
        /\ ~Valid(handle[t])
        /\ entry_size = ListCapacity
        /\ retval[t] = ResultInvalidHandle

\* C7: when the device's Activate reports an error, activate returns exactly
\* that error and list and size are as before the call.
C7_DeviceErrorNoEntry ==
    \A t \in Threads :
        (Returning(t) /\ result[t] \in DeviceErrors)
        => /\ retval[t] = result[t]
           /\ RegistryUnchanged

\* The device refused a new valid handle on a non-empty registry.
C7_Witness ==
    \E t \in Threads :
        /\ Returning(t)
        /\ result[t] = "DeviceErrorB"
        /\ entry_size >= 1
        /\ ~Holds(handle[t], vibration_device_list, list_size)

\* C8: when a valid handle is already registered, activate returns success,
\* does not call the device's Activate and changes neither list nor size.
C8_PresentNoDelegate ==
    \A t \in Threads :
        (/\ Returning(t)
         /\ Valid(handle[t])
         /\ Holds(handle[t], entry_list, entry_size))
        => /\ retval[t] = ResultSuccess
           /\ result[t] = NoResult
           /\ RegistryUnchanged

\* The last registered handle is activated again on a registry with room.
C8_Witness ==
    \E t \in Threads :
        /\ Returning(t)
        /\ entry_size >= 1
        /\ entry_size < ListCapacity
        /\ entry_list[entry_size - 1] = handle[t]
        /\ retval[t] = ResultSuccess
        /\ result[t] = NoResult

\* C9: when the registry is full and the valid handle is not registered,
\* activate returns ResultVibrationDeviceIndexOutOfRange without calling the
\* device's Activate, and the registry is unchanged.
C9_FullNoDelegate ==
    \A t \in Threads :
        (/\ Returning(t)
         /\ entry_size = ListCapacity
         /\ Valid(handle[t])
         /\ ~Holds(handle[t], entry_list, entry_size))
        => /\ retval[t] = ResultVibrationDeviceIndexOutOfRange
           /\ result[t] = NoResult
           /\ RegistryUnchanged

\* A new valid handle is refused on a full registry, the device untouched.
C9_Witness ==
    \E t \in Threads :
        /\ Returning(t)
        /\ entry_size = ListCapacity
        /\ Valid(handle[t])
        /\ ~Holds(handle[t], entry_list, entry_size)
        /\ result[t] = NoResult

BothAnswered == \A t \in Threads : pc[t] = "push"

\* Occurrences of h among the registered entries.
Occurrences(h) ==
    Cardinality({i \in DOMAIN vibration_device_list :
                    i < list_size /\ vibration_device_list[i] = h})

\* C10: two overlapping activate(h) calls for one valid handle h, unregistered
\* when the later call arrived, with free capacity and an accepting device,
\* both return success and raise list_size by exactly one in total; h is
\* stored once.
C10_ConcurrentSameHandle ==
    (/\ BothAnswered
     /\ race_fresh
     /\ race_size < ListCapacity
     /\ \A t \in Threads : Valid(handle[t]) /\ retval[t] \notin DeviceErrors)
    => /\ list_size = race_size + 1
       /\ \A t \in Threads : retval[t] = ResultSuccess /\ Occurrences(handle[t]) = 1

\* Both overlapping calls for the same fresh handle have returned success.
C10_Witness ==
    /\ BothAnswered
    /\ race_fresh
    /\ race_size >= 1
    /\ \A t \in Threads : Valid(handle[t]) /\ retval[t] = ResultSuccess
    /\ list_size = race_size + 1

\* C11: two overlapping activate calls for distinct valid handles, both
\* unregistered when the later call arrived, with two free slots and an
\* accepting device, both return success; the registry then holds both
\* handles and list_size has grown by two.
C11_ConcurrentDistinctHandles ==
    (/\ BothAnswered
     /\ race_distinct
     /\ race_size + 2 <= ListCapacity
     /\ \A t \in Threads : Valid(handle[t]) /\ retval[t] \notin DeviceErrors)
    => /\ list_size = race_size + 2
       /\ \A t \in Threads :
            /\ retval[t] = ResultSuccess
            /\ Holds(handle[t], vibration_device_list, list_size)

\* Both overlapping calls for two fresh handles have returned success.
C11_Witness ==
    /\ BothAnswered
    /\ race_distinct
    /\ handle[1].npad_type = handle[2].npad_type
    /\ handle[1].npad_id = handle[2].npad_id
    /\ \A t \in Threads : Valid(handle[t]) /\ retval[t] = ResultSuccess
    /\ list_size = race_size + 2

\* Positions between the start of validation and the return of the Impl.
InImpl(t) == pc[t] \in {"validate", "scan", "capacity", "activate", "insert", "unlock"}

\* C12: at most one thread is between the start of validation and the return
\* of ActivateVibrationDeviceImpl; it holds the mutex, and until its own
\* insert the registry is the one it found when it took the lock.
C12_MutualExclusion ==
    /\ \A t, u \in Threads : (InImpl(t) /\ InImpl(u)) => t = u
    /\ \A t \in Threads :
        InImpl(t) =>
            /\ mutex = t
            /\ (pc[t] # "unlock" => RegistryUnchanged)

\* One thread is about to insert while the other waits for the mutex.
C12_Witness ==
    \E t \in Threads :
        /\ pc[t] = "insert"
        /\ pc[Other(t)] = "lock"
        /\ handle[Other(t)] = handle[t]
        /\ mutex = t

\* C13: every call takes effect atomically at one point between its request
\* and its response: what it returns and the registry it leaves are those of
\* the sequential activate applied to the registry found under the lock, so
\* every execution equals the sequential one in lock order.
C13_Linearizable ==
    \A t \in Threads :
        Returning(t) =>
            LET seq == AtomicActivate(entry_list, entry_size, handle[t], result[t]) IN
                /\ retval[t] = seq.ret
                /\ vibration_device_list = seq.list
                /\ list_size = seq.size

\* A call returns while the other thread's overlapping call for the same
\* handle, issued earlier, is still waiting for the lock.
C13_Witness ==
    \E t \in Threads :
        /\ Returning(t)
        /\ race_fresh
        /\ pc[Other(t)] = "lock"
        /\ list_size = entry_size + 1
        /\ entry_size >= 1

\* C14: in every step list_size stays or grows by one, the entries below
\* list_size keep their index and value, and list_size grows only in a step
\* that returns success for a handle that was not registered and is stored at
\* the old list_size.
C14_GrowOnly ==
    [][/\ list_size' \in {list_size, list_size + 1}
       /\ \A i \in DOMAIN vibration_device_list :
            i < list_size => vibration_device_list'[i] = vibration_device_list[i]
       /\ list_size' = list_size + 1 =>
            \E t \in Threads :
                /\ pc[t] = "insert"
                /\ retval'[t] = ResultSuccess
                /\ ~Holds(handle[t], vibration_device_list, list_size)
                /\ list_size \in DOMAIN vibration_device_list
                /\ vibration_device_list'[list_size] = handle[t]]_vars

\* The registry has grown to its capacity, the last insert just made.
C14_Witness ==
    \E t \in Threads :
        /\ Returning(t)
        /\ list_size = ListCapacity
        /\ list_size = entry_size + 1
        /\ vibration_device_list[entry_size] = handle[t]

\* Registry s as a whole.
SessRegistry(s) == <<sess_list[s], sess_size[s], sess_mutex[s]>>

\* C15: every created object has its own list, size and lock: it starts empty
\* and unlocked, a step of a call changes only the registry of the object the
\* call is made on, and creating an object changes no other object.
C15_RegistriesIndependent ==
    [][/\ sess_count' # sess_count =>
            /\ sess_count' = sess_count + 1
            /\ sess_list'[sess_count'] = EmptyList
            /\ sess_size'[sess_count'] = 0
            /\ sess_mutex'[sess_count'] = NoThread
            /\ \A s \in Sessions : s <= sess_count => SessRegistry(s)' = SessRegistry(s)
       /\ \A s \in Sessions :
            (s <= sess_count /\ SessRegistry(s)' # SessRegistry(s)) =>
                \E t \in Threads :
                    /\ sess_pc'[t] # sess_pc[t]
                    /\ sess_of[t] = s
                    /\ \A u \in Sessions : u # s => SessRegistry(u)' = SessRegistry(u)]_vars

\* Two threads are inside calls on two different objects at once, each
\* holding that object's lock, and the two registries differ.
C15_Witness ==
    /\ sess_count >= 2
    /\ sess_pc[1] = "unlock"
    /\ sess_pc[2] = "unlock"
    /\ sess_of[1] # sess_of[2]
    /\ sess_mutex[sess_of[1]] = 1
    /\ sess_mutex[sess_of[2]] = 2
    /\ sess_size[sess_of[1]] = ListCapacity
    /\ sess_size[sess_of[2]] = 1

(* ---------------------------------------------------------------------- *)
(* IHidServer: fixed-result opcodes and activation handlers               *)
(* ---------------------------------------------------------------------- *)

\* A request has been dispatched.
Dispatched == hid_request # NoRequest

TableOpcodes == {e[1] : e \in FunctionTable}

NullHandlerOpcodes == {26} \cup (73..78) \cup {86, 308, 309} \cup (401..408) \cup {2000}

\* C16: dispatching an opcode whose table entry has a null handler (26,
\* 73-78, 86, 308, 309, 401-408, 2000), or an opcode the table does not list,
\* returns the fixed not-supported result and calls neither the Resource
\* Manager, nor the firmware settings, nor a registry.
C16_UnimplementedOpcodes ==
    (Dispatched /\ (hid_request.opcode \in NullHandlerOpcodes
                    \/ hid_request.opcode \notin TableOpcodes))
        => /\ hid_response = Response(ResultMethodNotSupported, <<>>, 0, <<>>)
           /\ hid_calls = <<>>
           /\ hid_response.object = NoSession

C16_Witness ==
    /\ hid_request.opcode = 26
    /\ hid_response.result = ResultMethodNotSupported
    /\ rm_initialized

RetiredOpcodes == {40, 41, 51, 56, 58} \cup (60..65) \cup {104, 1000, 1001}

\* The response of a retired operation: a function of the opcode alone.
RetiredResponse(opcode) ==
    Response(ResultSuccess,
             IF opcode = 1001 THEN <<"NpadCommunicationMode::Default">> ELSE <<>>,
             IF opcode \in {40, 58, 61, 65} THEN 1 ELSE 0,
             <<>>)

\* C17: each retired handler (40, 41, 51, 56, 58, 60-65, 104, 1000, 1001)
\* answers ResultSuccess with outputs that depend on the opcode only, whatever
\* the parameters and whatever was handled before, and makes no call at all,
\* GetResourceManager included.
C17_RetiredHandlersFixed ==
    (Dispatched /\ hid_request.opcode \in RetiredOpcodes)
        => /\ hid_response = RetiredResponse(hid_request.opcode)
           /\ hid_calls = <<>>

C17_Witness ==
    /\ hid_request.opcode = 104
    /\ hid_request.aruid = 2
    /\ hid_response.result = ResultSuccess
    /\ rm_initialized
    /\ sess_count > 0

\* C18: GetXpadIds (55) writes 0, 1, 2, 3 to the output buffer and answers
\* success with count 4, whatever was handled before, and makes no Resource
\* Manager call.
C18_GetXpadIdsFixed ==
    (Dispatched /\ hid_request.opcode = 55)
        => /\ hid_response.buffer = <<0, 1, 2, 3>>
           /\ hid_response.data = <<4>>
           /\ hid_response.result = ResultSuccess
           /\ hid_calls = <<>>

C18_Witness ==
    /\ hid_request.opcode = 55
    /\ hid_response.buffer = <<0, 1, 2, 3>>
    /\ rm_initialized
    /\ sess_count > 0

TwoStepOpcodes == {1, 11, 21, 31, 91, 300, 303}

\* Positions in the call log of the calls of one function.
CallsOf(fn) == {i \in DOMAIN hid_calls : hid_calls[i].fn = fn}

\* C19: in the two-step activation handlers (opcodes 1, 11, 21, 31, 91, 300,
\* 303) the low-level Activate() is called iff IsDeviceManaged() returned
\* false, and Activate(applet_resource_user_id) is called, after it and with
\* the request's id, iff the low-level call was skipped or returned success.
C19_TwoStepActivation ==
    (Dispatched /\ hid_request.opcode \in TwoStepOpcodes)
        => LET managed == CallsOf("IsDeviceManaged")
               low == CallsOf("Activate()")
               sess == CallsOf("Activate(aruid)")
           IN /\ Cardinality(managed) = 1
              /\ Cardinality(low) <= 1
              /\ Cardinality(sess) <= 1
              /\ (low # {}) <=> (\A i \in managed : hid_calls[i].ret = "false")
              /\ (sess # {}) <=>
                    (low = {} \/ \E i \in low : hid_calls[i].ret = ResultSuccess)
              /\ \A i \in managed, j \in low : i < j
              /\ \A i \in low, j \in sess : i < j
              /\ \A j \in sess : hid_calls[j].arg = hid_request.aruid

C19_Witness ==
    /\ hid_request.opcode = 303
    /\ \E i \in CallsOf("Activate()") : hid_calls[i].ret = "RmErrorA"
    /\ CallsOf("Activate(aruid)") = {}

DelegatingActivationOpcodes == TwoStepOpcodes \cup {103, 109}

\* C20: in the activation handlers that delegate to the Resource Manager
\* (opcodes 1, 11, 21, 31, 91, 300, 303, 103, 109), when a delegate activation
\* call reports an error, the response's result is that error.
C20_DelegateErrorRelayed ==
    (Dispatched /\ hid_request.opcode \in DelegatingActivationOpcodes)
        => \A i \in CallsOf("Activate()") \cup CallsOf("Activate(aruid)") :
              hid_calls[i].ret # ResultSuccess
                  => hid_response.result = hid_calls[i].ret


(* ---------------------------------------------------------------------- *)
(* IHidServer: wire blocks, vibration and palma handlers                  *)
(* ---------------------------------------------------------------------- *)

\* The last call of the handler into a collaborator function.
LastCallOf(fn) == hid_calls[CHOOSE i \in DOMAIN hid_calls : hid_calls[i].fn = fn]

\* C21: a typed value written into a declared fixed block and read back from
\* the bytes is the original value, field for field: the 0x18-byte block of
\* SetSixAxisSensorFusionParameters reaches the device as the handle and the
\* fusion parameters the client wrote, and the 8 bytes pushed by
\* GetSixAxisSensorFusionParameters read back as the device's parameters.
C21_FixedBlockRoundTrip ==
    /\ (Dispatched /\ hid_request.opcode = 70)
          => /\ Len(hid_request.param.raw) = 24
             /\ LastCallOf("SetSixAxisFusionParameters").arg =
                   [handle |-> hid_request.param.value.sixaxis_handle,
                    fusion |-> hid_request.param.value.sixaxis_fusion]
    /\ (Dispatched /\ hid_request.opcode = 71)
          => /\ Len(hid_request.param.raw) = 16
             /\ Len(hid_response.data) = 8
             /\ LastCallOf("GetSixAxisFusionParameters").arg.handle =
                   hid_request.param.value.handle
             /\ PopRawFusion(hid_response.data) =
                   LastCallOf("GetSixAxisFusionParameters").arg.fusion

C21_Witness ==
    /\ hid_request.opcode = 70
    /\ hid_request.param.value.sixaxis_fusion =
          [parameter1 |-> 1022739087, parameter2 |-> 1053609165]
    /\ hid_request.param.value.sixaxis_handle.npad_type = 4
    /\ SubSeq(hid_request.param.raw, 13, 16) # <<0, 0, 0, 0>>


\* Result of a request refused by the wire codec (spec: ProtocolViolation).
ResultProtocolViolation == "ProtocolViolation"

\* Input buffers of the last request with their element strides.
StridedBuffers ==
    IF hid_request.opcode = 102
    THEN {<<hid_request.param.buffers[1], 4>>}
    ELSE {<<hid_request.param.buffers[1], 4>>, <<hid_request.param.buffers[2], 16>>}

\* C22: in SetSupportedNpadIdType (102) and SendVibrationValues (206) an input
\* buffer whose length is not a multiple of the element stride is refused as
\* a ProtocolViolation and never interpreted, and no copy into the element
\* list writes more bytes than the list holds.
C22_MisalignedBufferRejected ==
    (Dispatched /\ hid_request.opcode \in {102, 206})
        => /\ (\E b \in StridedBuffers : Len(b[1]) % b[2] # 0)
                 => /\ hid_response.result = ResultProtocolViolation
                    /\ \A i \in DOMAIN hid_calls : hid_calls[i].obj = "std"
           /\ \A i \in DOMAIN hid_calls :
                 hid_calls[i].fn = "memcpy"
                     => hid_calls[i].arg.count <= hid_calls[i].arg.dst_size


\* Functions of the call log that fetch a vibration device or act on one.
DeviceAccessors ==
    {"GetGcVibrationDevice", "GetN64VibrationDevice", "GetVibrationDevice",
     "GetNSVibrationDevice"}

DeviceCommands ==
    {"SendVibrationGcErmCommand", "SendValueInBool", "IsVibrationMounted",
     "GetActualVibrationValue"}

\* C23: in SendVibrationGcErmCommand (207), SendVibrationValueInBool (212) and
\* IsVibrationDeviceMounted (211) a device is fetched and commanded or queried
\* only after IsVibrationHandleValid returned success for the request's
\* handle; when the validation fails the response carries its error and no
\* accessor and no device call is made.
C23_DeviceOnlyAfterValidation ==
    (Dispatched /\ hid_request.opcode \in {207, 211, 212})
        => /\ \A i \in DOMAIN hid_calls :
                 hid_calls[i].fn \in DeviceAccessors \cup DeviceCommands
                     => \E j \in 1..(i - 1) :
                           /\ hid_calls[j].fn = "IsVibrationHandleValid"
                           /\ hid_calls[j].arg = hid_request.param.handle
                           /\ hid_calls[j].ret = ResultSuccess
           /\ \A j \in DOMAIN hid_calls :
                 (hid_calls[j].fn = "IsVibrationHandleValid"
                  /\ hid_calls[j].ret # ResultSuccess)
                     => /\ hid_response.result = hid_calls[j].ret
                        /\ \A i \in DOMAIN hid_calls :
                              hid_calls[i].fn \notin DeviceAccessors \cup DeviceCommands

C23_Witness ==
    /\ hid_request.opcode = 207
    /\ hid_response.result = ResultInvalidHandle
    /\ \E j \in DOMAIN hid_calls :
          hid_calls[j].fn = "IsVibrationHandleValid" /\ hid_calls[j].ret = ResultInvalidHandle


(* ---------------------------------------------------------------------- *)
(* Registry: progress and delegate calls                                  *)
(* ---------------------------------------------------------------------- *)

\* C24: every activate call has released the registry mutex when it returns,
\* whichever of its five return paths it took; under fair scheduling and a
\* device Activate() that returns, every call that holds the mutex eventually
\* returns, so the mutex is free again and again, and while calls wait for
\* a free mutex one of them gets it. A single waiter is promised nothing.
C24_LockReleasedHolderReturns ==
    /\ [](\A t \in Threads : pc[t] \in {"idle", "lock", "push"} => mutex # t)
    /\ \A t \in Threads : (mutex = t) ~> (pc[t] = "push" /\ mutex # t)
    /\ (mutex # NoThread) ~> (mutex = NoThread)
    /\ (mutex = NoThread /\ \E t \in Threads : pc[t] = "lock")
          ~> (\E t \in Threads : mutex = t)

\* C24 as stated: every call that waits for the mutex eventually returns, so
\* no caller waits for the lock forever.
C24_EveryWaiterReturns ==
    /\ [](\A t \in Threads : pc[t] \in {"idle", "lock", "push"} => mutex # t)
    /\ \A t \in Threads : (pc[t] = "lock") ~> (pc[t] = "push")

C24_Witness ==
    \E t \in Threads :
        /\ pc[t] = "lock"
        /\ mutex = Other(t)
        /\ pc[Other(t)] = "unlock"
        /\ retval[Other(t)] \in DeviceErrors

\* C25: list_size counts the device Activate() calls of this registry that
\* returned success (one of them may still be on its way to the list); every
\* device call is made for a valid handle that is not in the list at that
\* time; so every registered handle was activated exactly once.
C25_SizeCountsActivations ==
    /\ Len(dev_log) = list_size + Cardinality({t \in Threads : pc[t] = "insert"})
    /\ \A t \in Threads :
          pc[t] = "activate"
              => /\ IsVibrationHandleValid(handle[t]) = ResultSuccess
                 /\ ~Holds(handle[t], vibration_device_list, list_size)
    /\ \A i \in DOMAIN vibration_device_list :
          i < list_size
              => Cardinality({k \in DOMAIN dev_log : dev_log[k] = vibration_device_list[i]}) = 1

C25_Witness ==
    /\ list_size = ListCapacity
    /\ Len(dev_log) = ListCapacity
    /\ \E t \in Threads : retval[t] \in DeviceErrors


(* ---------------------------------------------------------------------- *)
(* IHidServer: SendVibrationValues, GetPalmaOperationInfo and others      *)
(* ---------------------------------------------------------------------- *)

IsSend(c) == c.fn = "SendVibrationValue"

\* The sends of the last request, in the order they were made.
Sends == SelectSeq(hid_calls, IsSend)

\* C26: SendVibrationValues (206) with differing numbers of handles and
\* values answers ResultVibrationArraySizeMismatch and sends nothing;
\* otherwise the pairs are sent in index order with the request's aruid, no
\* send follows a send that returned an error, and the response carries that
\* error, or success when every pair was sent successfully.
C26_SendVibrationValues ==
    (Dispatched /\ hid_request.opcode = 206)
        => LET hs == hid_request.param.handles
               vs == hid_request.param.values
           IN IF Len(hs) # Len(vs)
              THEN /\ hid_response.result = ResultVibrationArraySizeMismatch
                   /\ Sends = <<>>
              ELSE /\ Len(Sends) <= Len(hs)
                   /\ \A k \in DOMAIN Sends :
                         /\ Sends[k].arg = [aruid |-> hid_request.aruid, index |-> k - 1,
                                            handle |-> hs[k], value |-> vs[k]]
                         /\ k < Len(Sends) => Sends[k].ret = ResultSuccess
                   /\ IF Sends # <<>> /\ Sends[Len(Sends)].ret # ResultSuccess
                      THEN hid_response.result = Sends[Len(Sends)].ret
                      ELSE /\ Len(Sends) = Len(hs)
                           /\ hid_response.result = ResultSuccess

C26_Witness ==
    /\ hid_request.opcode = 206
    /\ Len(hid_request.param.handles) = 2
    /\ Len(hid_request.param.values) = 2
    /\ Len(Sends) = 1
    /\ hid_response.result = "RmErrorB"


\* C27: GetPalmaOperationInfo (503): when the delegate returns an error the
\* handler builds exactly one response, which carries only that error, and
\* writes nothing to the output buffer; the operation data and the operation
\* type are emitted only when the delegate succeeded.
C27_PalmaErrorOnly ==
    (Dispatched /\ hid_request.opcode = 503)
        => LET delegate == LastCallOf("GetPalmaOperationInfo")
               builders == CallsOf("ResponseBuilder")
           IN /\ hid_response.result = delegate.ret
              /\ delegate.ret # ResultSuccess
                    => /\ Cardinality(builders) = 1
                       /\ CallsOf("WriteBuffer") = {}
                       /\ hid_response.buffer = <<>>
                       /\ hid_response.data = <<>>
              /\ (hid_response.buffer # <<>> \/ hid_response.data # <<>>)
                    => delegate.ret = ResultSuccess


\* C28: resource_manager->Initialize() has been called before any other
\* Resource Manager call of this layer: a handler's calls into it follow the
\* Initialize() of GetResourceManager(), and an IActiveVibrationDeviceList,
\* which calls through the pointer it was given, exists only once
\* CreateActiveVibrationDeviceList has made that call.
C28_InitializeFirst ==
    /\ \A i \in DOMAIN hid_calls :
          (hid_calls[i].obj = "ResourceManager" /\ hid_calls[i].fn # "Initialize")
              => /\ \E j \in 1..(i - 1) : hid_calls[j].fn = "Initialize"
                 /\ rm_initialized
    /\ sess_count > 0 => rm_initialized
    /\ hid_response.object # NoSession => rm_initialized
    /\ \A t \in Threads :
          sess_pc[t] # "idle" => (sess_of[t] \in 1..sess_count /\ rm_initialized)

\* A created list object has activated a device through the pointer it was
\* given, and a handler then calls into the Resource Manager.
C28_Witness ==
    /\ \E s \in 1..sess_count : sess_size[s] > 0
    /\ hid_request.opcode = 0
    /\ \E i \in DOMAIN hid_calls :
          hid_calls[i].obj = "ResourceManager" /\ hid_calls[i].fn = "CreateAppletResource"

\* C29: ResetSixAxisSensorFusionParameters (72) always makes both delegate
\* calls for the request's handle, SetSixAxisFusionParameters with the fixed
\* defaults {0.03f, 0.4f} and then SetSixAxisFusionEnabled(true), even when
\* the first returns an error; the response carries the first call's error
\* if it failed and otherwise the second call's result.
C29_ResetMakesBothCalls ==
    (Dispatched /\ hid_request.opcode = 72)
        => /\ \E i, j \in DOMAIN hid_calls :
                 /\ i < j
                 /\ hid_calls[i].fn = "SetSixAxisFusionParameters"
                 /\ hid_calls[i].arg =
                       [handle |-> hid_request.param.value.handle,
                        fusion |-> [parameter1 |-> 1022739087,
                                    parameter2 |-> 1053609165]]
                 /\ hid_calls[j].fn = "SetSixAxisFusionEnabled"
                 /\ hid_calls[j].arg =
                       [handle |-> hid_request.param.value.handle, enabled |-> TRUE]
                 /\ hid_response.result =
                       IF hid_calls[i].ret # ResultSuccess
                       THEN hid_calls[i].ret
                       ELSE hid_calls[j].ret
           /\ Cardinality({i \in DOMAIN hid_calls : hid_calls[i].obj = "SixAxis"}) = 2

C29_Witness ==
    /\ hid_request.opcode = 72
    /\ hid_response.result = "RmErrorA"
    /\ \E i \in DOMAIN hid_calls :
          hid_calls[i].fn = "SetSixAxisFusionParameters" /\ hid_calls[i].ret = "RmErrorA"
    /\ \E j \in DOMAIN hid_calls :
          hid_calls[j].fn = "SetSixAxisFusionEnabled" /\ hid_calls[j].ret = "RmErrorB"


\* The checks of GetActualVibrationValue whose error makes the value default.
ValueChecks == {"IsVibrationAruidActive", "IsVibrationHandleValid", "GetActualVibrationValue"}

\* C30: GetActualVibrationValue (202) always answers with result code
\* success; whenever the aruid check, the handle validation or the device
\* read returned an error the 16 bytes of the answer are
\* DEFAULT_VIBRATION_VALUE; the device is read only after the aruid check
\* succeeded with an active aruid and the request's handle was found valid.
C30_ActualValueDefaultsOnError ==
    (Dispatched /\ hid_request.opcode = 202)
        => /\ hid_response.result = ResultSuccess
           /\ Len(hid_response.data) = VibrationValueSize
           /\ (\E i \in DOMAIN hid_calls :
                  hid_calls[i].fn \in ValueChecks /\ hid_calls[i].ret # ResultSuccess)
                 => PopRawVibrationValue(hid_response.data) = DEFAULT_VIBRATION_VALUE
           /\ \A i \in DOMAIN hid_calls :
                 hid_calls[i].fn = "GetActualVibrationValue"
                     => /\ \E j \in 1..(i - 1) :
                              /\ hid_calls[j].fn = "IsVibrationAruidActive"
                              /\ hid_calls[j].ret = ResultSuccess
                              /\ hid_calls[j].arg.has_active_aruid
                        /\ \E j \in 1..(i - 1) :
                              /\ hid_calls[j].fn = "IsVibrationHandleValid"
                              /\ hid_calls[j].arg = hid_request.param.handle
                              /\ hid_calls[j].ret = ResultSuccess

C30_Witness ==
    /\ hid_request.opcode = 202
    /\ hid_response.result = ResultSuccess
    /\ PopRawVibrationValue(hid_response.data) = DEFAULT_VIBRATION_VALUE
    /\ \E i \in DOMAIN hid_calls :
          /\ hid_calls[i].fn = "GetActualVibrationValue"
          /\ hid_calls[i].ret # ResultSuccess
          /\ hid_calls[i].arg # DEFAULT_VIBRATION_VALUE


====
